---------------------------- MODULE Spec2Model ----------------------------
(***************************************************************************)
(* Model of ogame_stats: the append-only snapshot store and its queries    *)
(* (store.py), the delta aggregation (aggregator.py), the alert cooldown   *)
(* gate (cli.py, _maybe_send_alert), the rank locator (cli.py,             *)
(* _fetch_player_highscore) and the wall-clock scheduler (scheduler.py,    *)
(* utils_time.py).                                                         *)
(*                                                                         *)
(* Each subsystem has its own specification over the shared variables:     *)
(*   Spec         snapshot store and aggregator                            *)
(*   SpecAlert    alert cooldown gate over the alert log                   *)
(*   SpecLocator  rank locator over a ranked list                          *)
(*   SpecSched    scheduler loop, recap marker, process restarts           *)
(*   SpecQuery    windowed queries over snapshots hours and days apart     *)
(*   SpecMean     mean_abs_delta                                           *)
(*   SpecCache    players cache replacement                                *)
(*   SpecApi      API client: retries, fallbacks, payload shapes           *)
(*   SpecMain     exit codes of main                                       *)
(*   SpecParse    highscore parsers                                        *)
(*   SpecAlign    next_aligned_collect                                     *)
(*   SpecEngine   alert engine, rank branch                                *)
(*   SpecUrl      join_public_url                                          *)
(*   SpecPublish  publish_report                                           *)
(*   SpecHandle   players cache on one connection kept after a failure     *)
(*   SpecLogs     snapshot inserts and alert evaluations on one store      *)
(*   SpecLocatorAny, SpecLocatorAnyLive                                    *)
(*                rank locator over a resource that answers anything       *)
(*   SpecEnginePct   alert engine, rank and 24 h percent branches          *)
(*   SpecEngineLost  alert engine, lost-spike branch                       *)
(***************************************************************************)
EXTENDS Integers, Sequences, FiniteSets, TLC

VARIABLES
    snapshots,        \* table snapshots: sequence of rows, in insertion (id) order
    result,           \* what the last store / aggregator / alert call returned
    clock,            \* the system clock: ticks since 2025-10-26T00:00:00Z
    alerts_log,       \* table alerts_log: sequence of rows, in insertion (id) order
    sent,             \* the notifications the webhook accepted, in order
    cooldown_minutes, \* cfg.alerts_cooldown_minutes
    pc,               \* run_loop: where the scheduler process stands
    wake_now,         \* run_loop: `now` read at the top of the iteration
    due_collect,      \* run_loop: due_collect of the iteration
    due_recap,        \* run_loop: due_recap of the iteration
    ran,              \* the task functions invoked in this iteration, in order
    recap_last_date,  \* jobs_state["recap"].last_date (persisted)
    posted,           \* report_date of every recap the webhook accepted
    posted_for,       \* the recap boundary (local ticks) each posted recap was due for
    restarts,         \* how often the process was started again
    collect_minutes,  \* cfg.collect_minutes
    recap_time,       \* cfg.recap_time, as <<hour, minute>>
    loc,              \* _fetch_player_highscore: its arguments, locals and return value
    players_cache,    \* table players_cache: set of rows
    cache_txn,        \* the store handle's open transaction on players_cache
    exit_codes        \* (error category, exit code) of the runs of main so far

storeVars == <<snapshots>>
alertVars == <<alerts_log, sent, cooldown_minutes>>
schedVars == <<pc, wake_now, due_collect, due_recap, ran, recap_last_date, posted, posted_for,
               restarts, collect_minutes, recap_time>>
locVars == <<loc>>
cacheVars == <<players_cache, cache_txn>>
mainVars == <<exit_codes>>

vars == <<snapshots, result, clock, alerts_log, sent, cooldown_minutes, pc, wake_now,
          due_collect, due_recap, ran, recap_last_date, posted, posted_for, restarts,
          collect_minutes, recap_time, loc, players_cache, cache_txn, exit_codes>>

(***************************************************************************)
(* Bounds and input sets of the store model.                               *)
(***************************************************************************)
MaxRows == 3

Keys == {<<"fr:s1-fr", 42, "global">>, <<"fr:s1-fr", 42, "economy">>}
Timestamps == {100, 200, 300}
\* window edges handed to the at-or-before queries
QueryBounds == {50, 100, 200, 300}
\* (points, rank) of the n-th collected sample: one gain and one loss
Samples == <<(<<1000, 200>>), (<<1100, 180>>), (<<900, 210>>), (<<1100, 180>>)>>
SampleAt(n) == Samples[(n % Len(Samples)) + 1]

Max(a, b) == IF a >= b THEN a ELSE b
Min(a, b) == IF a <= b THEN a ELSE b

(***************************************************************************)
(* store.py                                                                *)
(***************************************************************************)
\* SnapshotRow (fetched_at is carried by the table but read by no query).
SnapshotRow(id, key, ts, points, rank) ==
    [id |-> id, key |-> key, api_timestamp |-> ts, points |-> points, rank |-> rank]

\* Python None for a row / for a Delta.
NoRow == SnapshotRow(0, <<"", 0, "">>, 0, 0, 0)
NoDelta == [present |-> FALSE, points |-> 0, rank |-> 0]
Delta(points, rank) == [present |-> TRUE, points |-> points, rank |-> rank]

\* WHERE server_key=? AND player_id=? AND metric_type=?
KeyRows(snaps, key) == {snaps[i] : i \in {j \in 1..Len(snaps) : snaps[j].key = key}}

\* ORDER BY api_timestamp DESC LIMIT 1 over a row set: SQLite leaves the order
\* of rows with equal api_timestamp open, so every such row is a possible answer.
FirstDesc(R) == {r \in R : \A q \in R : q.api_timestamp <= r.api_timestamp}
FirstAsc(R) == {r \in R : \A q \in R : q.api_timestamp >= r.api_timestamp}

\* get_latest_snapshot: the possible answers (NoRow when the key is empty).
GetLatestSnapshot(snaps, key) ==
    IF KeyRows(snaps, key) = {} THEN {NoRow} ELSE FirstDesc(KeyRows(snaps, key))

\* Mutant: the two rows inserted last (ORDER BY id DESC LIMIT 2).
FetchTwoLatestByInsertion(snaps, key) ==
    LET R == KeyRows(snaps, key)
        ById(S) == {r \in S : \A q \in S : q.id <= r.id} IN
    IF R = {} THEN {<< >>}
    ELSE IF Cardinality(R) = 1 THEN {<<r>> : r \in R}
    ELSE UNION {{<<r1, r2>> : r2 \in ById(R \ {r1})} : r1 \in ById(R)}

\* fetch_two_latest: the possible answers, each a sequence of up to 2 rows.
FetchTwoLatest(snaps, key) ==
    LET R == KeyRows(snaps, key) IN
    IF R = {} THEN {<< >>}
    ELSE IF Cardinality(R) = 1 THEN {<<r>> : r \in R}
    ELSE UNION {{<<r1, r2>> : r2 \in FirstDesc(R \ {r1})} : r1 \in FirstDesc(R)}

\* Mutant: only rows strictly before the bound.
FetchSnapshotStrictlyBefore(snaps, key, api_timestamp_max) ==
    LET R == {r \in KeyRows(snaps, key) : r.api_timestamp < api_timestamp_max} IN
    IF R = {} THEN {NoRow} ELSE FirstDesc(R)

\* fetch_snapshot_at_or_before
FetchSnapshotAtOrBefore(snaps, key, api_timestamp_max) ==
    LET R == {r \in KeyRows(snaps, key) : r.api_timestamp <= api_timestamp_max} IN
    IF R = {} THEN {NoRow} ELSE FirstDesc(R)

\* Mutant: no comparison at all, every sample is appended.
DuplicateOfNone(snaps, key, api_timestamp, last) == FALSE

\* Mutant: compares against every stored row of the key, not only the latest.
DuplicateOfAny(snaps, key, api_timestamp, last) ==
    \E r \in KeyRows(snaps, key) : r.api_timestamp = api_timestamp

\* insert_snapshot_if_new, line 221: `last and last.api_timestamp == api_timestamp`
IsDuplicateOfLatest(snaps, key, api_timestamp, last) ==
    last.id # 0 /\ last.api_timestamp = api_timestamp

\* Mutant: the sample overwrites the latest row of its key instead of being appended.
InsertSnapshotOverLatest(key, api_timestamp, points, rank) ==
    /\ Len(snapshots) < MaxRows
    /\ \E last \in GetLatestSnapshot(snapshots, key) :
         snapshots' =
             IF last.id = 0
             THEN Append(snapshots, SnapshotRow(Len(snapshots) + 1, key, api_timestamp, points, rank))
             ELSE [snapshots EXCEPT ![last.id] = SnapshotRow(last.id, key, api_timestamp, points, rank)]
    /\ result' = [op |-> "insert", key |-> key, api_timestamp |-> api_timestamp,
                  points |-> points, rank |-> rank, ret |-> TRUE]

\* insert_snapshot_if_new
InsertSnapshotIfNew(key, api_timestamp, points, rank) ==
    /\ \E last \in GetLatestSnapshot(snapshots, key) :
         IF IsDuplicateOfLatest(snapshots, key, api_timestamp, last)
         THEN /\ UNCHANGED snapshots
              /\ result' = [op |-> "insert", key |-> key, api_timestamp |-> api_timestamp,
                            points |-> points, rank |-> rank, ret |-> FALSE]
         ELSE /\ Len(snapshots) < MaxRows
              /\ snapshots' = Append(snapshots,
                     SnapshotRow(Len(snapshots) + 1, key, api_timestamp, points, rank))
              /\ result' = [op |-> "insert", key |-> key, api_timestamp |-> api_timestamp,
                            points |-> points, rank |-> rank, ret |-> TRUE]

(***************************************************************************)
(* aggregator.py                                                           *)
(***************************************************************************)
\* Delta(points=later.points - earlier.points, rank=earlier.rank - later.rank)
RowDelta(later, earlier) ==
    Delta(later.points - earlier.points, earlier.rank - later.rank)

\* last_update_delta: the (last, delta) pair for one answer of fetch_two_latest
LastUpdateDeltaOf(rows) ==
    IF Len(rows) < 2
    THEN [last |-> IF Len(rows) > 0 THEN rows[1] ELSE NoRow, delta |-> NoDelta]
    ELSE [last |-> rows[1], delta |-> RowDelta(rows[1], rows[2])]

LastUpdateDelta(key) ==
    /\ \E rows \in FetchTwoLatest(snapshots, key) :
         result' = [op |-> "last_update_delta", key |-> key,
                    last |-> LastUpdateDeltaOf(rows).last,
                    delta |-> LastUpdateDeltaOf(rows).delta]
    /\ UNCHANGED snapshots

\* Mutant: the guard forgets that the two rows may be the same sample.
RecapNoDeltaIgnoringSameTs(start_row, end_row) ==
    end_row.id = 0 \/ start_row.id = 0

\* daily_recap_delta, line 63
RecapNoDelta(start_row, end_row) ==
    end_row.id = 0 \/ start_row.id = 0 \/ start_row.api_timestamp = end_row.api_timestamp

\* daily_recap_delta
DailyRecapDelta(key, start_ts, end_ts) ==
    /\ \E end_row \in FetchSnapshotAtOrBefore(snapshots, key, end_ts) :
       \E start_row \in FetchSnapshotAtOrBefore(snapshots, key, start_ts) :
         result' = [op |-> "daily_recap_delta", key |-> key,
                    start_ts |-> start_ts, end_ts |-> end_ts,
                    start_row |-> start_row, end_row |-> end_row,
                    delta |-> IF RecapNoDelta(start_row, end_row)
                              THEN NoDelta ELSE RowDelta(end_row, start_row)]
    /\ UNCHANGED snapshots

(***************************************************************************)
(* Specification of the store and the aggregator.                          *)
(***************************************************************************)
NoResult == [op |-> "none"]

\* the scheduler's variables while no scheduler runs
NoLocator == [pc |-> "idle"]

\* a store handle with no open transaction (after connect, commit or close)
NoTxn == [open |-> FALSE, rows |-> {}]

SchedIdle ==
    /\ pc = "idle"
    /\ wake_now = 0
    /\ due_collect = FALSE
    /\ due_recap = FALSE
    /\ ran = << >>
    /\ recap_last_date = -1
    /\ posted = << >>
    /\ posted_for = << >>
    /\ restarts = 0
    /\ collect_minutes = 60
    /\ recap_time = <<21, 0>>

Init ==
    /\ snapshots = << >>
    /\ result = NoResult
    /\ clock = 0
    /\ alerts_log = << >>
    /\ sent = << >>
    /\ cooldown_minutes = 180
    /\ SchedIdle
    /\ loc = NoLocator
    /\ players_cache = {}
    /\ cache_txn = NoTxn
    /\ exit_codes = {}

Insert ==
    /\ \E key \in Keys, ts \in Timestamps :
         InsertSnapshotIfNew(key, ts, SampleAt(Len(snapshots))[1], SampleAt(Len(snapshots))[2])
    /\ UNCHANGED <<clock, alertVars, schedVars, locVars, cacheVars, mainVars>>

QueryLastUpdate ==
    /\ \E key \in Keys : LastUpdateDelta(key)
    /\ UNCHANGED <<clock, alertVars, schedVars, locVars, cacheVars, mainVars>>

QueryDailyRecap ==
    /\ \E key \in Keys, start_ts \in QueryBounds, end_ts \in QueryBounds :
         DailyRecapDelta(key, start_ts, end_ts)
    /\ UNCHANGED <<clock, alertVars, schedVars, locVars, cacheVars, mainVars>>

Next == Insert \/ QueryLastUpdate \/ QueryDailyRecap

Spec == Init /\ [][Next]_vars

(***************************************************************************)
(* Time: utils_time.py.  The clock counts ticks of 1/TicksPerSec second    *)
(* since 2025-10-26T00:00:00Z, the night Europe/Paris leaves summer time.  *)
(***************************************************************************)
TicksPerSec == 2
\* Europe/Paris: UTC+02:00 until 2025-10-26T01:00:00Z, UTC+01:00 after it
FallBackUtcSec == 3600
SummerOffsetSec == 7200
WinterOffsetSec == 3600

\* now_paris().utcoffset() at instant t (ticks)
UtcOffsetSec(t) == IF t < FallBackUtcSec * TicksPerSec THEN SummerOffsetSec ELSE WinterOffsetSec

\* iso_z(now_paris()): "YYYY-MM-DDTHH:MM:SS+HH:MM", as the pair (local wall time
\* in whole seconds, offset in seconds); timespec="seconds" drops the fraction.
IsoZ(t) == <<(t \div TicksPerSec) + UtcOffsetSec(t), UtcOffsetSec(t)>>

\* dt.datetime.fromisoformat(text): the instant, in ticks
FromIso(text) == (text[1] - text[2]) * TicksPerSec

\* text comparison of two such strings, as SQLite's ORDER BY on a TEXT column:
\* the wall time field first, then the offset field ("+01:00" < "+02:00")
IsoTextLeq(a, b) == a[1] < b[1] \/ (a[1] = b[1] /\ a[2] <= b[2])

(***************************************************************************)
(* Alert gate: store.py log_alert / last_alert_time, cli.py                *)
(* _maybe_send_alert.                                                      *)
(***************************************************************************)
MaxAlerts == 3
MaxClockSec == 4200

Categories == {"TOP:global", "PCT24H:global"}
CooldownChoices == {10, 20}
\* seconds the webhook call takes, in ticks (0: dry run)
SendTicks == {0, 3}

NoAlert == [category |-> "", created_at |-> <<0, 0>>, api_timestamp |-> 0]

AlertRows(log, category) ==
    {log[i] : i \in {j \in 1..Len(log) : log[j].category = category}}

\* last_alert_time: ORDER BY created_at DESC LIMIT 1 (created_at is TEXT)
LastAlertTime(log, category) ==
    LET R == AlertRows(log, category) IN
    IF R = {} THEN {NoAlert}
    ELSE {r \in R : \A q \in R : IsoTextLeq(q.created_at, r.created_at)}

\* _maybe_send_alert, lines 717-721
InCooldown(now, last) ==
    /\ last # NoAlert
    /\ now - FromIso(last.created_at) < cooldown_minutes * 60 * TicksPerSec

\* _maybe_send_alert: the gate, then wh.send (which may raise), then log_alert;
\* the step leaves `call` in result, with what came of it as its outcome
MaybeSendAlertAs(category, api_ts, call) ==
    \E last \in LastAlertTime(alerts_log, category) :
        IF InCooldown(clock, last)
        THEN /\ result' = [call EXCEPT !.outcome = "suppressed"]
             /\ UNCHANGED <<clock, alerts_log, sent>>
        ELSE \/ \E d \in SendTicks :
                  /\ Len(alerts_log) < MaxAlerts
                  /\ clock + d <= MaxClockSec * TicksPerSec
                  /\ clock' = clock + d
                  /\ sent' = Append(sent, [category |-> category, at |-> clock])
                  /\ alerts_log' = Append(alerts_log,
                         [category |-> category, created_at |-> IsoZ(clock + d),
                          api_timestamp |-> api_ts])
                  /\ result' = [call EXCEPT !.outcome = "sent"]
             \/ /\ result' = [call EXCEPT !.outcome = "raised"]
                /\ UNCHANGED <<clock, alerts_log, sent>>

MaybeSendAlert(category, api_ts) ==
    MaybeSendAlertAs(category, api_ts,
        [op |-> "alert", category |-> category, now |-> clock, outcome |-> ""])

\* time passes between two evaluations
ClockSteps ==
    {300 * TicksPerSec, cooldown_minutes * 60 * TicksPerSec - 1,
     cooldown_minutes * 60 * TicksPerSec}

Tick ==
    \E d \in ClockSteps :
        /\ clock + d <= MaxClockSec * TicksPerSec
        /\ clock' = clock + d
        /\ UNCHANGED <<alerts_log, sent, cooldown_minutes, result, storeVars, schedVars, locVars, cacheVars, mainVars>>

Alert ==
    /\ \E category \in Categories : MaybeSendAlert(category, 200)
    /\ UNCHANGED <<cooldown_minutes, storeVars, schedVars, locVars, cacheVars, mainVars>>

InitAlert ==
    /\ snapshots = << >>
    /\ result = NoResult
    /\ clock \in {2400 * TicksPerSec, 2400 * TicksPerSec + 1}
    /\ alerts_log = << >>
    /\ sent = << >>
    /\ cooldown_minutes \in CooldownChoices
    /\ SchedIdle
    /\ loc = NoLocator
    /\ players_cache = {}
    /\ cache_txn = NoTxn
    /\ exit_codes = {}

NextAlert == Tick \/ Alert

SpecAlert == InitAlert /\ [][NextAlert]_vars

(***************************************************************************)
(* Scheduler: utils_time.py next_aligned_collect / next_recap_time,        *)
(* scheduler.py run_loop / sleep_until, cli.py do_recap / cmd_post_recap.  *)
(* run_loop computes on the wall-clock fields of Europe/Paris datetimes:   *)
(* "local" below is wall time in ticks since 2025-10-26T00:00:00 local.    *)
(***************************************************************************)
SecPerMinute == 60
SecPerHour == 3600
SecPerDay == 86400
\* cmd_run: run_loop(..., grace_s=180)
GraceS == 180
\* next_aligned_collect(..., second=10), next_recap_time(..., second=15)
CollectSecond == 10
RecapSecond == 15

MinuteTicks == SecPerMinute * TicksPerSec
DayTicks == SecPerDay * TicksPerSec

\* now_paris(): the wall-clock reading at instant t
LocalTicks(t) == t + UtcOffsetSec(t) * TicksPerSec

\* now.date(), as days since 2025-10-26
DateOf(local) == local \div DayTicks

\* next_aligned_collect(now, every_minutes)
NextAlignedCollect(now, every_minutes) ==
    LET base == (now \div MinuteTicks) * MinuteTicks              \* replace(second=0, microsecond=0)
        minute == (base \div MinuteTicks) % 60                    \* base.minute
        bucket == (minute \div every_minutes) * every_minutes
        current_bucket_start == base - (minute - bucket) * MinuteTicks  \* replace(minute=bucket)
        next_time == current_bucket_start + every_minutes * MinuteTicks
    IN  (next_time \div MinuteTicks) * MinuteTicks + CollectSecond * TicksPerSec

\* next_recap_time(now, recap_hhmm)
NextRecapTime(now, hhmm) ==
    LET target == DateOf(now) * DayTicks
                  + (hhmm[1] * SecPerHour + hhmm[2] * SecPerMinute + RecapSecond) * TicksPerSec
    IN  IF now < target THEN target ELSE target + DayTicks

\* Mutant: the grace window is open at its end.
DueStrict(now, prev) == 0 <= now - prev /\ now - prev < GraceS * TicksPerSec

\* run_loop, lines 33-34: timedelta(0) <= (now - prev) <= timedelta(seconds=grace_s)
Due(now, prev) == 0 <= now - prev /\ now - prev <= GraceS * TicksPerSec

\* Mutant: the recap is run before the collection.
FirstTaskRecapFirst(dc, dr) == IF dr THEN "recap" ELSE IF dc THEN "collect" ELSE "sleep"

\* run_loop, lines 37-41: what the iteration runs first
FirstTask(dc, dr) == IF dc THEN "collect" ELSE IF dr THEN "recap" ELSE "sleep"

\* Mutant: the marker is not consulted.
RecapNeverDone(last_date, today) == FALSE

\* do_recap, line 687: st.get("last_date") == today
RecapAlreadyDone(last_date, today) == last_date = today

MaxRestarts == 2
\* the horizon: 2025-10-27T00:25:00 local
MaxSchedLocalSec == 87900

\* collect_minutes: the default, a divisor of 60, and a value that does not divide 60
CollectChoices == {60, 20, 25}
\* recap_time: before midnight, outside the horizon, and five seconds after a
\* collection boundary
RecapChoices == {<<23, 58>>, <<21, 0>>, <<0, 0>>}
\* local start times of the process: 23:55:00, 23:58:20, and one tick before 00:00:10
StartLocalTicks ==
    {86100 * TicksPerSec, 86300 * TicksPerSec, 86410 * TicksPerSec - 1}
\* how long collect_fn takes
CollectTicks == {0, 20 * TicksPerSec}
\* how long cmd_post_recap takes before it reads report_date
PostRecapTicks == {0, 110 * TicksPerSec}
\* how late sleep_until returns
OvershootTicks == {0, 1, GraceS * TicksPerSec, GraceS * TicksPerSec + 1}
\* how long the supervisor takes to start the process again
RestartTicks == {1, 30 * TicksPerSec}

InHorizon(t) == LocalTicks(t) <= MaxSchedLocalSec * TicksPerSec

\* run_loop, lines 25-34: the top of one iteration
TopOfLoop ==
    /\ pc = "wake"
    /\ LET now == LocalTicks(clock)
           next_collect == NextAlignedCollect(now, collect_minutes)
           next_recap == NextRecapTime(now, recap_time)
           prev_collect == next_collect - collect_minutes * MinuteTicks
           prev_recap == next_recap - DayTicks
       IN  /\ wake_now' = now
           /\ due_collect' = Due(now, prev_collect)
           /\ due_recap' = Due(now, prev_recap)
           /\ pc' = FirstTask(Due(now, prev_collect), Due(now, prev_recap))
    /\ ran' = << >>
    /\ UNCHANGED <<clock, result, recap_last_date, posted, posted_for, restarts, collect_minutes,
                   recap_time, storeVars, alertVars, locVars, cacheVars, mainVars>>

\* Mutant: run_loop logs what a task raises and goes on with the next step.
AfterRaiseContinue(task, dr) ==
    IF task = "collect" THEN "alerts"
    ELSE IF task = "alerts" /\ dr THEN "recap"
    ELSE "sleep"

\* run_loop, lines 37-41: no try around the task calls; what a task raises leaves
\* run_loop and, through cmd_run and main, ends the process
AfterRaise(task, dr) == "dead"

TaskReturned(task) == [op |-> "task", task |-> task, outcome |-> "returned"]
TaskRaised(task) == [op |-> "task", task |-> task, outcome |-> "raised"]

\* run_loop, line 38: collect_fn(); an ApiError or PlayerNotFound escapes the loop
Collect ==
    /\ pc = "collect"
    /\ ran' = Append(ran, "collect")
    /\ \E d \in CollectTicks :
         /\ InHorizon(clock + d)
         /\ clock' = clock + d
    /\ \/ /\ pc' = "alerts"
          /\ result' = TaskReturned("collect")
       \/ /\ pc' = AfterRaise("collect", due_recap)
          /\ result' = TaskRaised("collect")
    /\ UNCHANGED <<wake_now, due_collect, due_recap, recap_last_date, posted, posted_for,
                   restarts, collect_minutes, recap_time, storeVars, alertVars, locVars, cacheVars, mainVars>>

\* run_loop, lines 39-40: alerts_fn(); a failed webhook call escapes the loop
Alerts ==
    /\ pc = "alerts"
    /\ ran' = Append(ran, "alerts")
    /\ \/ /\ pc' = (IF due_recap THEN "recap" ELSE "sleep")
          /\ result' = TaskReturned("alerts")
       \/ /\ pc' = AfterRaise("alerts", due_recap)
          /\ result' = TaskRaised("alerts")
    /\ UNCHANGED <<clock, wake_now, due_collect, due_recap, recap_last_date,
                   posted, posted_for, restarts, collect_minutes, recap_time, storeVars, alertVars, locVars, cacheVars, mainVars>>

\* run_loop, line 41: recap_fn() = do_recap, which calls cmd_post_recap
Recap ==
    /\ pc = "recap"
    /\ ran' = Append(ran, "recap")
    /\ LET today == DateOf(LocalTicks(clock)) IN
       IF RecapAlreadyDone(recap_last_date, today)
       THEN /\ result' = [op |-> "recap", today |-> today, last_date |-> recap_last_date,
                          outcome |-> "noop"]
            /\ pc' = "sleep"
            /\ UNCHANGED <<clock, recap_last_date, posted, posted_for>>
       ELSE \E d \in PostRecapTicks :
            /\ InHorizon(clock + d)
            /\ clock' = clock + d
            /\ LET report_date == DateOf(LocalTicks(clock + d)) IN
               \/ /\ posted' = Append(posted, report_date)        \* wh.send
                  /\ posted_for' = Append(posted_for, NextRecapTime(wake_now, recap_time) - DayTicks)
                  /\ recap_last_date' = report_date               \* set_jobs_state
                  /\ result' = [op |-> "recap", today |-> today,
                                last_date |-> recap_last_date, outcome |-> "posted"]
                  /\ pc' = "sleep"
               \/ /\ result' = [op |-> "recap", today |-> today,
                                last_date |-> recap_last_date, outcome |-> "raised"]
                  /\ pc' = AfterRaise("recap", due_recap)
                  /\ UNCHANGED <<recap_last_date, posted, posted_for>>
    /\ UNCHANGED <<wake_now, due_collect, due_recap, restarts, collect_minutes,
                   recap_time, storeVars, alertVars, locVars, cacheVars, mainVars>>

\* run_loop, lines 43-49: recompute both boundaries, sleep_until the earlier one
Sleep ==
    /\ pc = "sleep"
    /\ LET now == LocalTicks(clock)
           next_collect == NextAlignedCollect(now, collect_minutes)
           next_recap == NextRecapTime(now, recap_time)
           wake == IF next_collect < next_recap THEN next_collect ELSE next_recap
       IN  \E o \in OvershootTicks :
             /\ InHorizon(clock + Max(0, wake - now) + o)
             /\ clock' = clock + Max(0, wake - now) + o
    /\ pc' = "wake"
    /\ UNCHANGED <<result, wake_now, due_collect, due_recap, ran, recap_last_date, posted, posted_for,
                   restarts, collect_minutes, recap_time, storeVars, alertVars, locVars, cacheVars, mainVars>>

\* the process is stopped while it sleeps
Stop ==
    /\ pc = "sleep"
    /\ pc' = "dead"
    /\ UNCHANGED <<clock, result, wake_now, due_collect, due_recap, ran, recap_last_date,
                   posted, posted_for, restarts, collect_minutes, recap_time, storeVars, alertVars, locVars, cacheVars, mainVars>>

\* cmd_run is started again on the same store: only the tables survive
Restart ==
    /\ pc = "dead"
    /\ restarts < MaxRestarts
    /\ restarts' = restarts + 1
    /\ \E d \in RestartTicks :
         /\ InHorizon(clock + d)
         /\ clock' = clock + d
    /\ pc' = "wake"
    /\ wake_now' = 0
    /\ due_collect' = FALSE
    /\ due_recap' = FALSE
    /\ ran' = << >>
    /\ UNCHANGED <<result, recap_last_date, posted, posted_for, collect_minutes, recap_time,
                   storeVars, alertVars, locVars, cacheVars, mainVars>>

InitSched ==
    /\ snapshots = << >>
    /\ result = NoResult
    /\ alerts_log = << >>
    /\ sent = << >>
    /\ cooldown_minutes = 180
    /\ clock \in {l - WinterOffsetSec * TicksPerSec : l \in StartLocalTicks}
    /\ pc = "wake"
    /\ wake_now = 0
    /\ due_collect = FALSE
    /\ due_recap = FALSE
    /\ ran = << >>
    /\ recap_last_date = -1
    /\ posted = << >>
    /\ posted_for = << >>
    /\ restarts = 0
    /\ collect_minutes \in CollectChoices
    /\ recap_time \in RecapChoices
    /\ loc = NoLocator
    /\ players_cache = {}
    /\ cache_txn = NoTxn
    /\ exit_codes = {}

NextSched == TopOfLoop \/ Collect \/ Alerts \/ Recap \/ Sleep \/ Stop \/ Restart

SpecSched == InitSched /\ [][NextSched]_vars

(***************************************************************************)
(* Rank locator: cli.py _fetch_player_highscore over a ranked list in      *)
(* which the entry at zero-based offset k has rank k + 1.                  *)
(***************************************************************************)
\* _fetch_player_highscore: window = 500
window == 500
\* _fetch_player_highscore: for span in (250, 1000, 3000)
Spans == <<250, 1000, 3000>>
\* Mutant: the scan goes one block further.
ScanCapLarger == 200000 + window

\* _fetch_player_highscore: if start > 200000: break
ScanCap == 200000

\* the player looked for, and the api_timestamp of the ranked list
TargetId == 42
ListTimestamp == 300

\* hint_rank: 0 stands for None and for 0, which the code treats alike
HintChoices == {0, 1, 40, 300, 5000, 199990}
\* where the target stands relative to the hint, for a hint that is about right
NearHint == {-50, 0, 50}
\* where the target stands when the hint is wrong; 0: not in the list
FarTargets == {0, 1, 501, 7000, 200000, 200501}
\* entries of the list beyond the target
TailChoices == {0, 700}

PointsAt(rank) == 1000000 - 3 * rank
PlayerAt(k, target) == IF k = target - 1 THEN TargetId ELSE 1000 + k

\* fetch_highscore_block(start, end) on a list of `total` entries
FetchHighscoreBlock(target, total, start, end) ==
    [api_timestamp |-> ListTimestamp,
     total |-> total,
     entries |-> {[player_id |-> PlayerAt(k, target), rank |-> k + 1, points |-> PointsAt(k + 1)] :
                    k \in start..Min(end, total - 1)}]

\* Mutant: the first entry of the block is taken for the player.
FindAnyEntry(entries, player_id) == entries

\* _find_player_in_highscore_block: the entries that carry player_id (at most one here)
FindPlayerInHighscoreBlock(entries, player_id) == {e \in entries : e.player_id = player_id}

\* Mutant: the first probe starts at the hint instead of one span before it.
HintStartAtHint(hint_rank, span) == Max(0, hint_rank - 1)

\* line 165: start = max(0, (hint_rank - span) - 1)
HintStart(hint_rank, span) == Max(0, (hint_rank - span) - 1)

\* Mutant: the loops are nested the other way round, offsets outside, spans inside.
ProbeStartOffsetsFirst(hint_rank, k) ==
    LET span == Spans[(k % 3) + 1] IN HintStart(hint_rank, span) + (k \div 3) * span

\* the k-th hint probe (k = 0..8): span, then offset in (0, span, span * 2)
ProbeStart(hint_rank, k) ==
    LET span == Spans[(k \div 3) + 1] IN HintStart(hint_rank, span) + (k % 3) * span

\* Mutant: the scan skips one offset between two blocks.
NextScanStartSkipping(start) == start + window + 1

\* line 182: start += window
NextScanStart(start) == start + window

\* no block fetched yet
NoBlock == [api_timestamp |-> 0, total |-> 0, entries |-> {}]

LocatorStart(hint_rank, target, total) ==
    [pc |-> IF hint_rank # 0 /\ hint_rank > 0 THEN "hint" ELSE "scan",
     hint_rank |-> hint_rank, target |-> target, total |-> total,
     k |-> 0, start |-> 0, fetches |-> 0, scanned |-> FALSE, ret |-> << >>,
     req |-> << >>, snap |-> NoBlock]

\* lines 154-169: one try_window call of the hint loops, which asked for
\* [start, start + window - 1] and got snap
HintProbeOn(start, snap) ==
    LET hit == FindPlayerInHighscoreBlock(snap.entries, TargetId)
        fetched == [loc EXCEPT !.fetches = @ + 1, !.snap = snap,
                               !.req = <<start, start + window - 1>>]
    IN  IF hit # {}
        THEN \E e \in hit :
               loc' = [fetched EXCEPT !.pc = "done",
                                      !.ret = <<snap.api_timestamp, e.points, e.rank>>]
        ELSE loc' = [fetched EXCEPT !.pc = IF loc.k = 3 * Len(Spans) - 1 THEN "scan" ELSE "hint",
                                    !.k = @ + 1]

\* lines 172-184: one iteration of the sequential scan, which asked for
\* [loc.start, loc.start + window - 1] and got snap
ScanStepOn(snap) ==
    LET hit == FindPlayerInHighscoreBlock(snap.entries, TargetId)
        fetched == [loc EXCEPT !.fetches = @ + 1, !.scanned = TRUE, !.snap = snap,
                               !.req = <<loc.start, loc.start + window - 1>>]
    IN  IF hit # {}
        THEN \E e \in hit :
               loc' = [fetched EXCEPT !.pc = "done",
                                      !.ret = <<snap.api_timestamp, e.points, e.rank>>]
        ELSE IF \/ (snap.total # 0 /\ loc.start >= snap.total)
                \/ snap.entries = {}
             THEN loc' = [fetched EXCEPT !.pc = "PlayerNotFound"]
             ELSE IF NextScanStart(loc.start) > ScanCap
                  THEN loc' = [fetched EXCEPT !.pc = "PlayerNotFound",
                                              !.start = NextScanStart(@)]
                  ELSE loc' = [fetched EXCEPT !.start = NextScanStart(@)]

\* a try_window call on the ranked list
HintProbe ==
    /\ loc.pc = "hint"
    /\ LET start == Max(0, ProbeStart(loc.hint_rank, loc.k)) IN
         HintProbeOn(start, FetchHighscoreBlock(loc.target, loc.total, start, start + window - 1))
    /\ UNCHANGED <<result, clock, storeVars, alertVars, schedVars, cacheVars, mainVars>>

\* an iteration of the scan on the ranked list
ScanStep ==
    /\ loc.pc = "scan"
    /\ ScanStepOn(FetchHighscoreBlock(loc.target, loc.total, loc.start, loc.start + window - 1))
    /\ UNCHANGED <<result, clock, storeVars, alertVars, schedVars, cacheVars, mainVars>>

InitLocator ==
    /\ snapshots = << >>
    /\ result = NoResult
    /\ clock = 0
    /\ alerts_log = << >>
    /\ sent = << >>
    /\ cooldown_minutes = 180
    /\ SchedIdle
    /\ players_cache = {}
    /\ cache_txn = NoTxn
    /\ exit_codes = {}
    /\ \E hint_rank \in HintChoices :
       \E target \in {t \in {hint_rank + d : d \in NearHint} \cup FarTargets : t >= 0} :
       \E tail \in TailChoices :
         loc = LocatorStart(hint_rank, target, IF target = 0 THEN 1200 + tail ELSE target + tail)

NextLocator == HintProbe \/ ScanStep

SpecLocator == InitLocator /\ [][NextLocator]_vars

(***************************************************************************)
(* Rank locator over a resource that answers every fetch with some block,  *)
(* whatever was asked for.                                                 *)
(***************************************************************************)
\* the entry of the target and an entry of another player
TargetEntry == [player_id |-> TargetId, rank |-> 7, points |-> 999]
OtherEntry == [player_id |-> 1000, rank |-> 1, points |-> 5]
\* total: 0 stands for an absent total and for 0, which the code treats alike
\* (`if snap.total and ...`)
AnyTotals == {0, 700, 300000}
AnyBlocks ==
    [api_timestamp : {ListTimestamp},
     total : AnyTotals,
     entries : {{}, {OtherEntry}, {OtherEntry, TargetEntry}}]

\* a try_window call answered by any block
HintProbeAny ==
    /\ loc.pc = "hint"
    /\ \E snap \in AnyBlocks :
         HintProbeOn(Max(0, ProbeStart(loc.hint_rank, loc.k)), snap)
    /\ UNCHANGED <<result, clock, storeVars, alertVars, schedVars, cacheVars, mainVars>>

\* an iteration of the scan answered by any block
ScanStepAny ==
    /\ loc.pc = "scan"
    /\ \E snap \in AnyBlocks : ScanStepOn(snap)
    /\ UNCHANGED <<result, clock, storeVars, alertVars, schedVars, cacheVars, mainVars>>

InitLocatorAny ==
    /\ snapshots = << >>
    /\ result = NoResult
    /\ clock = 0
    /\ alerts_log = << >>
    /\ sent = << >>
    /\ cooldown_minutes = 180
    /\ SchedIdle
    /\ players_cache = {}
    /\ cache_txn = NoTxn
    /\ exit_codes = {}
    /\ \E hint_rank \in HintChoices : loc = LocatorStart(hint_rank, 0, 0)

NextLocatorAny == HintProbeAny \/ ScanStepAny

SpecLocatorAny == InitLocatorAny /\ [][NextLocatorAny]_vars

\* every fetch returns, and the function goes on with its next statement
SpecLocatorAnyLive == SpecLocatorAny /\ WF_vars(NextLocatorAny)

(***************************************************************************)
(* Windowed queries: store.py fetch_snapshot_near_or_before and            *)
(* fetch_series_last_days, aggregator.py rolling_24h_delta and             *)
(* weekly_series, over snapshots that lie hours and days apart.            *)
(***************************************************************************)
\* (key, api_timestamp) of the samples collected: t0, t0 + 24 h, 2600 s later, t0 + 7 d,
\* and one sample of another metric
DayRows ==
    {<<(<<"fr:s1-fr", 42, "global">>), 1000>>,
     <<(<<"fr:s1-fr", 42, "global">>), 87400>>,
     <<(<<"fr:s1-fr", 42, "global">>), 90000>>,
     <<(<<"fr:s1-fr", 42, "global">>), 605800>>,
     <<(<<"fr:s1-fr", 42, "economy">>), 87400>>}
\* bounds, targets and end_ts handed to the queries
DayBounds == {500, 1000, 87400, 605800, 700000}

\* Mutant: no fallback to the rows after the target.
FetchSnapshotNearNoFallback(snaps, key, target_ts) ==
    FetchSnapshotAtOrBefore(snaps, key, target_ts)

\* fetch_snapshot_near_or_before: the possible answers
FetchSnapshotNearOrBefore(snaps, key, target_ts) ==
    LET row == FetchSnapshotAtOrBefore(snaps, key, target_ts)
        R2 == {r \in KeyRows(snaps, key) : r.api_timestamp > target_ts}
    IN  IF row # {NoRow} THEN row
        ELSE IF R2 = {} THEN {NoRow} ELSE FirstAsc(R2)

\* the orders ORDER BY api_timestamp ASC may give the rows of R
AscendingOrders(R) ==
    {s \in [1..Cardinality(R) -> R] :
        /\ \A i, j \in 1..Cardinality(R) : i # j => s[i] # s[j]
        /\ \A i, j \in 1..Cardinality(R) : i < j => s[i].api_timestamp <= s[j].api_timestamp}

\* fetch_series_last_days: the possible answers
FetchSeriesLastDays(snaps, key, min_ts) ==
    AscendingOrders({r \in KeyRows(snaps, key) : r.api_timestamp >= min_ts})

\* Mutant: a baseline with the timestamp of the latest row gives a zero delta.
RollingNoDeltaOnlyAbsent(base, last) == base = NoRow

\* rolling_24h_delta, line 33: not base or base.api_timestamp == last.api_timestamp
RollingNoDelta(base, last) == base = NoRow \/ base.api_timestamp = last.api_timestamp

\* rolling_24h_delta; `base` is recorded beside the returned (last, delta)
Rolling24hDelta(key) ==
    /\ \E last \in GetLatestSnapshot(snapshots, key) :
         IF last = NoRow
         THEN result' = [op |-> "rolling_24h_delta", key |-> key, last |-> NoRow,
                         base |-> NoRow, delta |-> NoDelta]
         ELSE \E base \in FetchSnapshotNearOrBefore(snapshots, key,
                                                    last.api_timestamp - 24 * 3600) :
                result' = [op |-> "rolling_24h_delta", key |-> key, last |-> last,
                           base |-> base,
                           delta |-> IF RollingNoDelta(base, last)
                                     THEN NoDelta ELSE RowDelta(last, base)]
    /\ UNCHANGED snapshots

\* weekly_series
WeeklySeries(key, end_ts) ==
    /\ \E series \in FetchSeriesLastDays(snapshots, key, end_ts - 7 * 24 * 3600) :
         result' = [op |-> "weekly_series", key |-> key, end_ts |-> end_ts,
                    series |-> series]
    /\ UNCHANGED snapshots

InsertDays ==
    /\ \E row \in DayRows :
         InsertSnapshotIfNew(row[1], row[2], SampleAt(Len(snapshots))[1],
                             SampleAt(Len(snapshots))[2])
    /\ UNCHANGED <<clock, alertVars, schedVars, locVars, cacheVars, mainVars>>

QueryAtOrBefore ==
    /\ \E key \in Keys, bound \in DayBounds :
       \E row \in FetchSnapshotAtOrBefore(snapshots, key, bound) :
         result' = [op |-> "fetch_snapshot_at_or_before", key |-> key,
                    api_timestamp_max |-> bound, row |-> row]
    /\ UNCHANGED <<snapshots, clock, alertVars, schedVars, locVars, cacheVars, mainVars>>

QueryNearOrBefore ==
    /\ \E key \in Keys, target_ts \in DayBounds :
       \E row \in FetchSnapshotNearOrBefore(snapshots, key, target_ts) :
         result' = [op |-> "fetch_snapshot_near_or_before", key |-> key,
                    target_ts |-> target_ts, row |-> row]
    /\ UNCHANGED <<snapshots, clock, alertVars, schedVars, locVars, cacheVars, mainVars>>

QueryRolling24h ==
    /\ \E key \in Keys : Rolling24hDelta(key)
    /\ UNCHANGED <<clock, alertVars, schedVars, locVars, cacheVars, mainVars>>

QueryWeeklySeries ==
    /\ \E key \in Keys, end_ts \in DayBounds : WeeklySeries(key, end_ts)
    /\ UNCHANGED <<clock, alertVars, schedVars, locVars, cacheVars, mainVars>>

NextQuery ==
    InsertDays \/ QueryAtOrBefore \/ QueryNearOrBefore \/ QueryRolling24h \/ QueryWeeklySeries

SpecQuery == Init /\ [][NextQuery]_vars

(***************************************************************************)
(* aggregator.py mean_abs_delta.  The float it returns is kept as the      *)
(* fraction num / den of the true division it performs.                    *)
(***************************************************************************)
MaxSeriesLen == 4
PointValues == {5, 10, 15}
SeriesChoices == UNION {[1..n -> PointValues] : n \in 0..MaxSeriesLen}

Abs(x) == IF x < 0 THEN -x ELSE x

RECURSIVE SumSeq(_)
\* sum(deltas)
SumSeq(xs) == IF xs = << >> THEN 0 ELSE xs[1] + SumSeq(Tail(xs))

\* Mutant: divides by the number of points instead of the number of differences.
MeanAbsDeltaOverLen(points_series) ==
    IF Len(points_series) < 2 THEN [num |-> 0, den |-> 1]
    ELSE LET deltas == [i \in 1..(Len(points_series) - 1) |->
                          Abs(points_series[i + 1] - points_series[i])]
         IN  [num |-> SumSeq(deltas), den |-> Len(points_series)]

\* mean_abs_delta
MeanAbsDelta(points_series) ==
    IF Len(points_series) < 2 THEN [num |-> 0, den |-> 1]
    ELSE LET deltas == [i \in 1..(Len(points_series) - 1) |->
                          Abs(points_series[i + 1] - points_series[i])]
         IN  [num |-> SumSeq(deltas), den |-> Max(1, Len(deltas))]

QueryMeanAbsDelta ==
    /\ \E points_series \in SeriesChoices :
         result' = [op |-> "mean_abs_delta", points_series |-> points_series,
                    ret |-> MeanAbsDelta(points_series)]
    /\ UNCHANGED <<snapshots, clock, alertVars, schedVars, locVars, cacheVars, mainVars>>

NextMean == QueryMeanAbsDelta

SpecMean == Init /\ [][NextMean]_vars

(***************************************************************************)
(* store.py replace_players_cache: the committed rows of players_cache.    *)
(***************************************************************************)
ServerKeys == {"fr:s1-fr", "fr:s2-fr"}
\* fetched_at / api_timestamp of a refresh
FetchTimes == {1, 2}
\* the players a refresh supplies, as (player_id, player_name); the last list names
\* player 1 twice
PlayerLists ==
    {<< >>,
     <<(<<1, "Galoup">>)>>,
     <<(<<1, "Galoup">>), (<<2, "Nox">>)>>,
     <<(<<2, "Nox2">>), (<<3, "Vega">>)>>,
     <<(<<1, "Galoup">>), (<<1, "Galoup">>)>>}

CacheRow(server_key, fetched_at, api_timestamp, player) ==
    [server_key |-> server_key, fetched_at |-> fetched_at, api_timestamp |-> api_timestamp,
     player_id |-> player[1], player_name |-> player[2]]

\* PRIMARY KEY(server_key, player_id): the INSERT of a second row with one player_id fails
ViolatesPrimaryKey(players) ==
    \E i, j \in 1..Len(players) : i # j /\ players[i][1] = players[j][1]

\* Mutant: the new rows are merged into the old ones (INSERT OR REPLACE, no DELETE).
MergedPlayersCache(cache, server_key, fetched_at, api_timestamp, players) ==
    {r \in cache : ~(r.server_key = server_key
                     /\ \E i \in 1..Len(players) : players[i][1] = r.player_id)}
    \cup {CacheRow(server_key, fetched_at, api_timestamp, players[i]) : i \in 1..Len(players)}

\* replace_players_cache, lines 152-162: DELETE ... WHERE server_key=?, then the INSERTs
ReplacedPlayersCache(cache, server_key, fetched_at, api_timestamp, players) ==
    {r \in cache : r.server_key # server_key}
    \cup {CacheRow(server_key, fetched_at, api_timestamp, players[i]) : i \in 1..Len(players)}

\* replace_players_cache: one transaction, committed at line 163; a failed INSERT
\* raises before the commit and leaves the committed rows as they were.  The call
\* is made on a handle that the caller drops when the call raises (cli.py main:
\* the exception ends the run), so no transaction stays open.
ReplacePlayersCache ==
    /\ \E server_key \in ServerKeys, t \in FetchTimes, players \in PlayerLists :
         IF ViolatesPrimaryKey(players)
         THEN /\ result' = [op |-> "replace_players_cache", server_key |-> server_key,
                            fetched_at |-> t, players |-> players, outcome |-> "raised"]
              /\ UNCHANGED players_cache
              /\ UNCHANGED cache_txn
         ELSE /\ result' = [op |-> "replace_players_cache", server_key |-> server_key,
                            fetched_at |-> t, players |-> players, outcome |-> "ok"]
              /\ players_cache' = ReplacedPlayersCache(players_cache, server_key, t, t, players)
              /\ UNCHANGED cache_txn
    /\ UNCHANGED <<snapshots, clock, alertVars, schedVars, locVars, mainVars>>

NextCache == ReplacePlayersCache

SpecCache == Init /\ [][NextCache]_vars

(***************************************************************************)
(* The three writers of the store side by side: insert_snapshot_if_new,    *)
(* _maybe_send_alert with log_alert, and replace_players_cache.            *)
(***************************************************************************)
NextLogs == Insert \/ Alert

SpecLogs == Init /\ [][NextLogs]_vars

(***************************************************************************)
(* store.py on one connection that stays in use after a call raised:       *)
(* sqlite3 opens a transaction at the first DELETE/INSERT and keeps it     *)
(* open until commit; a failing statement undoes only itself.              *)
(***************************************************************************)

\* what a SELECT on the handle sees: its open transaction, else the committed rows
HandleRows == IF cache_txn.open THEN cache_txn.rows ELSE players_cache

\* executemany, line 153: the index of the first INSERT that violates the primary key
FirstViolation(players) ==
    CHOOSE j \in 1..Len(players) :
        /\ \E i \in 1..(j - 1) : players[i][1] = players[j][1]
        /\ \A k \in 1..(j - 1) : ~\E i \in 1..(k - 1) : players[i][1] = players[k][1]

\* replace_players_cache, lines 152-162, when an INSERT fails: the DELETE and the
\* INSERTs before the failing one stay in the open transaction
PartlyReplacedPlayersCache(cache, server_key, fetched_at, api_timestamp, players) ==
    ReplacedPlayersCache(cache, server_key, fetched_at, api_timestamp,
                         SubSeq(players, 1, FirstViolation(players) - 1))

\* replace_players_cache on the handle in use: no try, no rollback
ReplacePlayersCacheOnHandle ==
    /\ \E server_key \in ServerKeys, t \in FetchTimes, players \in PlayerLists :
         IF ViolatesPrimaryKey(players)
         THEN /\ result' = [op |-> "replace_players_cache", server_key |-> server_key,
                            fetched_at |-> t, players |-> players, outcome |-> "raised"]
              /\ cache_txn' = [open |-> TRUE,
                               rows |-> PartlyReplacedPlayersCache(HandleRows, server_key, t, t, players)]
              /\ UNCHANGED players_cache
         ELSE /\ result' = [op |-> "replace_players_cache", server_key |-> server_key,
                            fetched_at |-> t, players |-> players, outcome |-> "ok"]
              /\ players_cache' = ReplacedPlayersCache(HandleRows, server_key, t, t, players)
              /\ cache_txn' = NoTxn
    /\ UNCHANGED <<snapshots, clock, alertVars, schedVars, locVars, mainVars>>

\* get_player_id_by_name / list_player_names / get_players_cache_fetched_at:
\* a SELECT ... WHERE server_key=? on the handle
ReadPlayersCache ==
    /\ \E server_key \in ServerKeys :
         result' = [op |-> "read_players_cache", server_key |-> server_key,
                    rows |-> {r \in HandleRows : r.server_key = server_key}]
    /\ UNCHANGED <<snapshots, clock, alertVars, schedVars, locVars, cacheVars, mainVars>>

\* the con.commit() of any later store write on the handle (set_jobs_state,
\* log_alert, insert_snapshot_if_new): it commits whatever the handle holds
CommitOnHandle ==
    /\ result' = [op |-> "commit", pending |-> cache_txn.open]
    /\ players_cache' = HandleRows
    /\ cache_txn' = NoTxn
    /\ UNCHANGED <<snapshots, clock, alertVars, schedVars, locVars, mainVars>>

\* the handle is closed with its transaction open: sqlite rolls it back
CloseHandle ==
    /\ cache_txn.open
    /\ result' = [op |-> "close"]
    /\ cache_txn' = NoTxn
    /\ UNCHANGED <<players_cache, snapshots, clock, alertVars, schedVars, locVars, mainVars>>

NextHandle ==
    \/ ReplacePlayersCacheOnHandle
    \/ ReadPlayersCache
    \/ CommitOnHandle
    \/ CloseHandle

SpecHandle == Init /\ [][NextHandle]_vars

(***************************************************************************)
(* ogame_api.py: _retry_get, _get_maybe_json, fetch_highscore_block,       *)
(* fetch_players and the parsers, over what the server answers to each     *)
(* HTTP GET of one call.                                                   *)
(***************************************************************************)
\* One answer: "fail" is a GET that raises (no connection, timeout, HTTP error status,
\* a JSON body that does not decode); the others are bodies of a 200 response:
\*   json_known     a JSON object with a players/player/data/entries list of entries
\*   json_unknown   a JSON object with none of these keys
\*   json_list      a JSON array
\*   xml_known      well-formed XML with <player> elements under the root
\*   xml_empty      well-formed XML of the known root without <player> elements
\*   xml_unknown    well-formed XML of another shape (an error document, XHTML)
\*   malformed      text that is neither JSON nor well-formed XML
Bodies == {"json_known", "json_unknown", "json_list", "xml_known", "xml_empty",
           "xml_unknown", "malformed"}
Answers == Bodies \cup {"fail"}
JsonBodies == {"json_known", "json_unknown", "json_list"}
\* entries a body of a known shape carries
KnownEntries == 2
\* _retry_get: tries = 3
Tries == 3

\* The answers to one call: the first GET, then `fails` failed GETs followed by
\* `later` for every further GET of _retry_get, and `text` for _request_text.
Scripts == [first : Answers, fails : 0..Tries, later : Answers, text : Answers]

Returned(type, body) == [status |-> "ok", type |-> type, body |-> body]
Raised(error) == [status |-> error, type |-> "", body |-> ""]

\* _retry_get: r.text of the first GET that succeeds; ApiError after `tries` failures
RetryGet(script) ==
    IF script.fails >= Tries \/ script.later = "fail"
    THEN Raised("ApiError")
    ELSE Returned("str", script.later)

\* _get_maybe_json
GetMaybeJson(script) ==
    IF script.first = "fail" THEN RetryGet(script)
    ELSE IF script.first = "json_list" THEN Returned("list", script.first)
    ELSE IF script.first \in JsonBodies THEN Returned("dict", script.first)
    ELSE Returned("str", script.first)

\* What one call does on the network, in order: each session.get with whether it
\* carried the query parameters and whether it returned a response, and each
\* time.sleep with its length in tenths of a second.
HttpGet(params, ok) == [ev |-> "get", params |-> params, ok |-> ok, tenths |-> 0]
HttpSleep(tenths) == [ev |-> "sleep", params |-> FALSE, ok |-> FALSE, tenths |-> tenths]

\* _retry_get, line 91: time.sleep(0.6 * (2**i))
Backoff(i) == 6 * 2^i

\* _retry_get from attempt i (range(tries) counts from 0): session.get(url, timeout=...)
\* without params; after a failure sleep and go on while i < tries - 1
RECURSIVE RetryGetLog(_, _)
RetryGetLog(script, i) ==
    IF i >= Tries THEN << >>
    ELSE IF i >= script.fails /\ script.later # "fail" THEN <<HttpGet(FALSE, TRUE)>>
    ELSE IF i < Tries - 1
         THEN <<HttpGet(FALSE, FALSE), HttpSleep(Backoff(i))>> \o RetryGetLog(script, i + 1)
         ELSE <<HttpGet(FALSE, FALSE)>>

\* _get_maybe_json: session.get(url, params=params, ...), and on any exception
\* _retry_get(self.session, url, ...)
GetMaybeJsonLog(script) ==
    IF script.first = "fail"
    THEN <<HttpGet(TRUE, FALSE)>> \o RetryGetLog(script, 0)
    ELSE <<HttpGet(TRUE, TRUE)>>

\* fetch_players: one more plain GET (_request_text) when the payload is JSON
FetchPlayersLog(script) ==
    IF script.first \in JsonBodies
    THEN GetMaybeJsonLog(script) \o <<HttpGet(FALSE, script.text # "fail")>>
    ELSE GetMaybeJsonLog(script)

Parsed(entries) == [status |-> "ok", entries |-> entries]
Failed(error) == [status |-> error, entries |-> 0]

\* _parse_highscore_xml / the XML part of fetch_players: ET.fromstring, then findall("player")
ParseXml(body) ==
    IF body = "xml_known" THEN Parsed(KnownEntries)
    ELSE IF body \in {"xml_empty", "xml_unknown"} THEN Parsed(0)
    ELSE Failed("ApiError")

\* _parse_highscore_json
ParseHighscoreJson(body) ==
    IF body = "json_known" THEN Parsed(KnownEntries) ELSE Parsed(0)

\* fetch_highscore_block
ApiFetchHighscoreBlock(script) ==
    LET payload == GetMaybeJson(script) IN
    IF payload.status # "ok" THEN Failed(payload.status)
    ELSE IF payload.type = "str" THEN ParseXml(payload.body)
    ELSE IF payload.type = "dict" THEN ParseHighscoreJson(payload.body)
    ELSE Failed("ApiError")

\* fetch_players: a JSON payload is dropped for one plain _request_text, whose
\* exception is the one requests raises
ApiFetchPlayers(script) ==
    LET payload == GetMaybeJson(script) IN
    IF payload.status # "ok" THEN Failed(payload.status)
    ELSE IF payload.type \in {"dict", "list"}
         THEN IF script.text = "fail" THEN Failed("RequestException")
              ELSE ParseXml(script.text)
         ELSE ParseXml(payload.body)

\* the body the call finally parsed ("" when it got none)
ParsedBody(call, script) ==
    LET payload == GetMaybeJson(script) IN
    IF payload.status # "ok" THEN ""
    ELSE IF call = "fetch_players" /\ payload.type \in {"dict", "list"}
         THEN (IF script.text = "fail" THEN "" ELSE script.text)
         ELSE payload.body

CallFetchHighscoreBlock ==
    /\ \E script \in Scripts :
         /\ script.text = "fail"
         /\ result' = [op |-> "fetch_highscore_block", script |-> script,
                       body |-> ParsedBody("fetch_highscore_block", script),
                       http |-> GetMaybeJsonLog(script),
                       ret |-> ApiFetchHighscoreBlock(script)]
    /\ UNCHANGED <<snapshots, clock, alertVars, schedVars, locVars, cacheVars, mainVars>>

CallFetchPlayers ==
    /\ \E script \in Scripts :
         result' = [op |-> "fetch_players", script |-> script,
                    body |-> ParsedBody("fetch_players", script),
                    http |-> FetchPlayersLog(script),
                    ret |-> ApiFetchPlayers(script)]
    /\ UNCHANGED <<snapshots, clock, alertVars, schedVars, locVars, cacheVars, mainVars>>

NextApi == CallFetchHighscoreBlock \/ CallFetchPlayers

SpecApi == Init /\ [][NextApi]_vars

(***************************************************************************)
(* cli.py main: the exit code for what the command raises.                 *)
(***************************************************************************)
\* What a command can raise, with the error category of its raise site:
\*   UniverseNotFound   resolve_server_base_url: no server_id can be derived
\*   PlayerNotFound     _resolve_player_id, _fetch_player_highscore
\*   ApiError           ogame_api.py: transport failure after the retries, parse failure
\*   ConnectionError    requests, from a GET made without _retry_get (_request_json)
\*   ValueError         load_config: "player_name is required", "... must be a mapping"
\*   FileNotFoundError  load_config: "Config not found"
\*   KeyError           a defect of the program
Raisable ==
    {[class |-> "UniverseNotFound", category |-> "not_found"],
     [class |-> "PlayerNotFound", category |-> "not_found"],
     [class |-> "ApiError", category |-> "api"],
     [class |-> "ConnectionError", category |-> "api"],
     [class |-> "ValueError", category |-> "config"],
     [class |-> "FileNotFoundError", category |-> "config"],
     [class |-> "KeyError", category |-> "logic"]}

\* the classes an exception class inherits from, itself included
Bases(class) ==
    IF class \in {"UniverseNotFound", "PlayerNotFound"}
    THEN {class, "ApiError", "RuntimeError", "Exception"}
    ELSE IF class = "ApiError" THEN {class, "RuntimeError", "Exception"}
    ELSE IF class \in {"ConnectionError", "FileNotFoundError"}
         THEN {class, "OSError", "Exception"}
    ELSE {class, "Exception"}

\* main, lines 787-798: the except clauses in their order, with the code each returns
ExceptClauses ==
    <<(<<"UniverseNotFound", 2>>), (<<"PlayerNotFound", 3>>), (<<"ApiError", 4>>),
      (<<"Exception", 1>>)>>

\* main: the return value when the command raises an exception of `class`
ExitCode(class) ==
    LET matching == {i \in 1..Len(ExceptClauses) : ExceptClauses[i][1] \in Bases(class)}
        first == CHOOSE i \in matching : \A j \in matching : i <= j
    IN  ExceptClauses[first][2]

Main ==
    /\ \E e \in Raisable :
         /\ result' = [op |-> "main", raised |-> e, ret |-> ExitCode(e.class)]
         /\ exit_codes' = exit_codes \cup {[category |-> e.category, code |-> ExitCode(e.class)]}
    /\ UNCHANGED <<snapshots, clock, alertVars, schedVars, locVars, cacheVars>>

NextMain == Main

SpecMain == Init /\ [][NextMain]_vars

(***************************************************************************)
(* ogame_api.py _parse_highscore_xml / _parse_highscore_json over ranked   *)
(* blocks whose attributes are the text the server wrote ("" stands for an *)
(* attribute that is absent or empty).                                     *)
(***************************************************************************)
MaxPlayers == 2
\* the <player> elements a block is made of: id 0, rank 0, a full entry, an entry
\* without score, an element without id
PlayerElements ==
    {[id |-> "0", position |-> "7", score |-> "100"],
     [id |-> "42", position |-> "0", score |-> "100"],
     [id |-> "42", position |-> "7", score |-> "100"],
     [id |-> "42", position |-> "7", score |-> ""],
     [id |-> "", position |-> "7", score |-> "100"]}
\* the attributes of the root
RootAttributes ==
    {[timestamp |-> "", total |-> ""],
     [timestamp |-> "300", total |-> ""],
     [timestamp |-> "300", total |-> "3"]}
PlayerLists2 == UNION {[1..n -> PlayerElements] : n \in 0..MaxPlayers}
HighscoreDocs ==
    {[timestamp |-> root.timestamp, total |-> root.total, players |-> players] :
        root \in RootAttributes, players \in PlayerLists2}

\* int(text or "0"), int(value or 0)
IntOf(text) ==
    CASE text = "" -> 0
      [] text = "0" -> 0
      [] text = "3" -> 3
      [] text = "7" -> 7
      [] text = "42" -> 42
      [] text = "100" -> 100
      [] text = "300" -> 300

HighscoreEntry(player_id, rank, points) ==
    [player_id |-> player_id, rank |-> rank, points |-> points]

\* HighscoreSnapshot; total is << >> for None
HighscoreSnapshot(api_timestamp, entries, total) ==
    [api_timestamp |-> api_timestamp, entries |-> entries, total |-> total]

\* Mutant: only the id is tested.
ValidEntryIdOnly(pid, rank) == pid # 0

\* lines 285 and 316: if pid and rank
ValidEntry(pid, rank) == pid # 0 /\ rank # 0

\* the loop over the <player> elements / the candidates list, lines 279-288 and 307-317
RECURSIVE ParsedEntries(_)
ParsedEntries(players) ==
    IF players = << >> THEN << >>
    ELSE LET el == Head(players)
             pid == IntOf(el.id)
             rank == IntOf(el.position)
             points == IntOf(el.score)
         IN  IF ValidEntry(pid, rank)
             THEN <<HighscoreEntry(pid, rank, points)>> \o ParsedEntries(Tail(players))
             ELSE ParsedEntries(Tail(players))

\* int(total) if total not in (None, "") else None
TotalOf(text) == IF text = "" THEN << >> ELSE <<IntOf(text)>>

\* _parse_highscore_xml on a well-formed document
ParseHighscoreXmlDoc(doc) ==
    HighscoreSnapshot(IntOf(doc.timestamp), ParsedEntries(doc.players), TotalOf(doc.total))

\* _parse_highscore_json on {"highscore": {"@attributes": {...}, "player": [{"@attributes": {...}}, ...]}}
ParseHighscoreJsonDoc(doc) ==
    HighscoreSnapshot(IntOf(doc.timestamp), ParsedEntries(doc.players), TotalOf(doc.total))

CallParseHighscoreXml ==
    /\ \E doc \in HighscoreDocs :
         result' = [op |-> "parse_highscore", format |-> "xml", doc |-> doc,
                    ret |-> ParseHighscoreXmlDoc(doc)]
    /\ UNCHANGED <<snapshots, clock, alertVars, schedVars, locVars, cacheVars, mainVars>>

CallParseHighscoreJson ==
    /\ \E doc \in HighscoreDocs :
         result' = [op |-> "parse_highscore", format |-> "json", doc |-> doc,
                    ret |-> ParseHighscoreJsonDoc(doc)]
    /\ UNCHANGED <<snapshots, clock, alertVars, schedVars, locVars, cacheVars, mainVars>>

NextParse == CallParseHighscoreXml \/ CallParseHighscoreJson

SpecParse == Init /\ [][NextParse]_vars

(***************************************************************************)
(* utils_time.py next_aligned_collect as a function of the wall-clock      *)
(* reading and of collect_minutes.                                         *)
(***************************************************************************)
\* every_minutes: 1, a divisor of 60, a non-divisor below 60, 60, values above 60
EveryChoices == {1, 20, 25, 60, 90, 1440}
\* wall-clock readings, in ticks since 2025-10-26T00:00:00 local
AlignNows ==
    {(h * SecPerHour + m * SecPerMinute + s) * TicksPerSec + f :
        h \in {0, 23}, m \in {0, 15, 55}, s \in {0, 10, 59}, f \in {0, 1}}

CallNextAlignedCollect ==
    /\ \E now \in AlignNows, every_minutes \in EveryChoices :
         result' = [op |-> "next_aligned_collect", now |-> now,
                    every_minutes |-> every_minutes,
                    ret |-> NextAlignedCollect(now, every_minutes)]
    /\ UNCHANGED <<snapshots, clock, alertVars, schedVars, locVars, cacheVars, mainVars>>

NextAlign == CallNextAlignedCollect

SpecAlign == Init /\ [][NextAlign]_vars

(***************************************************************************)
(* Alert engine: cli.py do_alerts, the rank branch of one headline metric  *)
(* over the snapshots the store holds.                                     *)
(***************************************************************************)
\* thresholds rank_jump_1h / rank_drop_1h of the configuration (default 25)
ThresholdChoices == {-25, 0, 20, 25}

\* Mutant: the drop is tested before the jump.
RankCategoryFlopFirst(rank, jump, drop) ==
    IF rank <= -drop THEN "FLOP" ELSE IF rank >= jump THEN "TOP" ELSE ""

\* do_alerts, lines 618 and 630: if d.rank >= jump ... elif d.rank <= -drop
RankCategory(rank, jump, drop) ==
    IF rank >= jump THEN "TOP" ELSE IF rank <= -drop THEN "FLOP" ELSE ""

\* f"TOP:{m}", f"FLOP:{m}"
CategoryName(kind, metric) == kind \o ":" \o metric

\* do_alerts, lines 604-643 for one metric m: last_update_delta, `continue` when there
\* is no delta, else at most one _maybe_send_alert with api_ts=last.api_timestamp
DoAlertsRank ==
    /\ \E key \in Keys, jump \in ThresholdChoices, drop \in ThresholdChoices :
       \E rows \in FetchTwoLatest(snapshots, key) :
         LET d == LastUpdateDeltaOf(rows).delta
             last == LastUpdateDeltaOf(rows).last
             kind == IF d.present THEN RankCategory(d.rank, jump, drop) ELSE ""
             call == [op |-> "do_alerts", key |-> key, jump |-> jump, drop |-> drop,
                      delta |-> d, raised |-> kind, outcome |-> "none"]
         IN  IF kind = ""
             THEN /\ result' = call
                  /\ UNCHANGED <<clock, alerts_log, sent>>
             ELSE MaybeSendAlertAs(CategoryName(kind, key[3]), last.api_timestamp, call)
    /\ UNCHANGED <<cooldown_minutes, storeVars, schedVars, locVars, cacheVars, mainVars>>

\* the stores a cycle runs on: no row, one row, and two rows of the global metric
\* whose ranks differ by +25, +20, 0, -25 and -30 places
LastRanks == {175, 180, 200, 225, 230}
EngineStores ==
    {<< >>, <<SnapshotRow(1, <<"fr:s1-fr", 42, "global">>, 100, 1000, 200)>>}
    \cup {<<SnapshotRow(1, <<"fr:s1-fr", 42, "global">>, 100, 1000, 200),
            SnapshotRow(2, <<"fr:s1-fr", 42, "global">>, 200, 1100, r)>> : r \in LastRanks}

InitEngine ==
    /\ snapshots \in EngineStores
    /\ result = NoResult
    /\ clock = 0
    /\ alerts_log = << >>
    /\ sent = << >>
    /\ cooldown_minutes = 180
    /\ SchedIdle
    /\ loc = NoLocator
    /\ players_cache = {}
    /\ cache_txn = NoTxn
    /\ exit_codes = {}

NextEngine == DoAlertsRank

SpecEngine == InitEngine /\ [][NextEngine]_vars

(***************************************************************************)
(* utils_url.py join_public_url over texts kept as sequences of            *)
(* characters: a slash, a blank, and a character that is neither.          *)
(***************************************************************************)
MaxUrlLen == 2
UrlChars == {"/", " ", "x"}
UrlTexts == UNION {[1..n -> UrlChars] : n \in 0..MaxUrlLen}

\* str.lstrip(chars), str.rstrip(chars)
RECURSIVE LStrip(_, _)
LStrip(text, chars) ==
    IF text # << >> /\ Head(text) \in chars THEN LStrip(Tail(text), chars) ELSE text
RECURSIVE RStrip(_, _)
RStrip(text, chars) ==
    IF text # << >> /\ text[Len(text)] \in chars
    THEN RStrip(SubSeq(text, 1, Len(text) - 1), chars)
    ELSE text
\* str.strip()
Strip(text) == RStrip(LStrip(text, {" "}), {" "})

\* Mutant: the two texts are put around a slash as they come.
JoinPublicUrlConcat(public_base_url, path) ==
    LET base == Strip(public_base_url)
        rel == Strip(path)
    IN  IF base = << >> THEN rel
        ELSE IF rel = << >> THEN base
        ELSE base \o <<"/">> \o rel

\* join_public_url
JoinPublicUrl(public_base_url, path) ==
    LET base == Strip(public_base_url)
        rel == Strip(path)
    IN  IF base = << >> THEN rel
        ELSE IF rel = << >> THEN base
        ELSE (IF base[Len(base)] # "/" THEN base \o <<"/">> ELSE base) \o LStrip(rel, {"/"})

CallJoinPublicUrl ==
    /\ \E public_base_url \in UrlTexts, path \in UrlTexts :
         result' = [op |-> "join_public_url", public_base_url |-> public_base_url,
                    path |-> path, ret |-> JoinPublicUrl(public_base_url, path)]
    /\ UNCHANGED <<snapshots, clock, alertVars, schedVars, locVars, cacheVars, mainVars>>

NextUrl == CallJoinPublicUrl

SpecUrl == Init /\ [][NextUrl]_vars

(***************************************************************************)
(* publisher.py publish_report.  A path is <<directory, name>>; the        *)
(* report lies in the render directory or in the publish directory.        *)
(***************************************************************************)
PublishDir == "docs"
ReportDirs == {"out", "docs"}
ReportNames == {"report_2026-02-07_s1-fr_A.html", "latest.html"}
\* latest_filename of the configuration ("" stands for an empty or blank value)
LatestFilenames == {"", "latest.html", "index.htm", "a/b.html", "a\\b.html"}
WithPathSeparator == {"a/b.html", "a\\b.html"}

Published(status, copied, index) == [status |-> status, copied |-> copied, index |-> index]

\* shutil.copy2(src, dst): SameFileError when dst is src
SameFile(src, dst) == src = dst

\* publish_report, lines 58-59: if keep_history: if report_path.name != latest_name
HistoryWanted(keep_history, report_name, latest_name) ==
    keep_history /\ report_name # latest_name

\* publish_report: the exception or the files written, in order
PublishReport(report_path, exists, latest_filename, keep_history, generate_index) ==
    LET latest_name == IF latest_filename = "" THEN "latest.html" ELSE latest_filename
        latest_path == <<PublishDir, latest_name>>
        dated_path == <<PublishDir, report_path[2]>>
    IN  IF ~exists THEN Published("FileNotFoundError", << >>, FALSE)
        ELSE IF latest_name \in WithPathSeparator THEN Published("ValueError", << >>, FALSE)
        ELSE IF SameFile(report_path, latest_path)
             THEN Published("SameFileError", << >>, FALSE)
        ELSE IF ~HistoryWanted(keep_history, report_path[2], latest_name)
             THEN Published("ok", <<latest_path>>, generate_index)
        ELSE IF SameFile(report_path, dated_path)
             THEN Published("SameFileError", <<latest_path>>, FALSE)
        ELSE Published("ok", <<latest_path, dated_path>>, generate_index)

CallPublishReport ==
    /\ \E dir \in ReportDirs, name \in ReportNames, exists \in BOOLEAN,
          latest_filename \in LatestFilenames, keep_history \in BOOLEAN,
          generate_index \in BOOLEAN :
         result' = [op |-> "publish_report", report_path |-> <<dir, name>>,
                    exists |-> exists, latest_filename |-> latest_filename,
                    keep_history |-> keep_history, generate_index |-> generate_index,
                    ret |-> PublishReport(<<dir, name>>, exists, latest_filename,
                                          keep_history, generate_index)]
    /\ UNCHANGED <<snapshots, clock, alertVars, schedVars, locVars, cacheVars, mainVars>>

NextPublish == CallPublishReport

SpecPublish == Init /\ [][NextPublish]_vars

(***************************************************************************)
(* Alert engine: cli.py do_alerts, one pass of the loop over the headline  *)
(* metrics as two steps (the rank branch, then the 24 h percent branch),   *)
(* and the lost-spike branch that follows the loop.  result holds what the *)
(* last step did and so where the cycle stands.                            *)
(***************************************************************************)
\* thresholds pct_change_24h, in thousandths (default 0.006)
PermilleChoices == {6, 100}

\* Mutant: the movement is compared with its sign.
PctReachedSigned(last2, d24, permille) ==
    d24.points * 1000 >= permille * Max(1, last2.points - d24.points)

\* do_alerts, lines 648-650: base = max(1, last2.points - d24.points),
\* pct = abs(d24.points) / base, pct >= pct_24h (base is positive)
PctReached(last2, d24, permille) ==
    Abs(d24.points) * 1000 >= permille * Max(1, last2.points - d24.points)

\* rolling_24h_delta: the possible (last, delta) answers
Rolling24hAnswers(snaps, key) ==
    UNION {IF last = NoRow THEN {[last |-> NoRow, delta |-> NoDelta]}
           ELSE {[last |-> last,
                  delta |-> IF RollingNoDelta(base, last) THEN NoDelta
                            ELSE RowDelta(last, base)] :
                   base \in FetchSnapshotNearOrBefore(snaps, key, last.api_timestamp - 24 * 3600)} :
             last \in GetLatestSnapshot(snaps, key)}

\* the rank branch left the pass with the percent branch still to run: there was a
\* last-update delta (no `continue`, line 612) and no dispatch raised
PctPending ==
    /\ result.op = "do_alerts"
    /\ result.delta.present
    /\ result.outcome # "raised"

\* do_alerts, lines 611-643: the rank branch of the pass for one metric
AlertsRankStep ==
    /\ ~PctPending
    /\ DoAlertsRank

\* do_alerts, lines 645-662: the percent branch of the same pass
AlertsPctStep ==
    /\ PctPending
    /\ \E permille \in PermilleChoices :
       \E r \in Rolling24hAnswers(snapshots, result.key) :
         LET submit == r.last # NoRow /\ r.delta.present /\ PctReached(r.last, r.delta, permille)
             call == [op |-> "do_alerts_pct", key |-> result.key, permille |-> permille,
                      last |-> r.last, delta |-> r.delta,
                      rank_raised |-> result.raised,
                      raised |-> IF submit THEN "PCT24H" ELSE "", outcome |-> "none"]
         IN  IF submit
             THEN MaybeSendAlertAs(CategoryName("PCT24H", result.key[3]),
                                   r.last.api_timestamp, call)
             ELSE /\ result' = call
                  /\ UNCHANGED <<clock, alerts_log, sent>>
    /\ UNCHANGED <<cooldown_minutes, storeVars, schedVars, locVars, cacheVars, mainVars>>

\* the stores a cycle runs on: no row, one row, and a baseline of 1000 or 0 points
\* followed 24 h later by a row that gained or lost points and kept or gained rank
PctLastRows ==
    {<<1000, 1000, 200>>, <<1000, 1005, 200>>, <<1000, 1006, 175>>, <<1000, 994, 200>>,
     <<1000, 1200, 200>>, <<0, 0, 200>>, <<0, 1, 175>>}
PctStores ==
    {<< >>, <<SnapshotRow(1, <<"fr:s1-fr", 42, "global">>, 1000, 1000, 200)>>}
    \cup {<<SnapshotRow(1, <<"fr:s1-fr", 42, "global">>, 1000, x[1], 200),
            SnapshotRow(2, <<"fr:s1-fr", 42, "global">>, 87400, x[2], x[3])>> : x \in PctLastRows}

InitEnginePct ==
    /\ snapshots \in PctStores
    /\ result = NoResult
    /\ clock = 0
    /\ alerts_log = << >>
    /\ sent = << >>
    /\ cooldown_minutes = 180
    /\ SchedIdle
    /\ loc = NoLocator
    /\ players_cache = {}
    /\ cache_txn = NoTxn
    /\ exit_codes = {}

NextEnginePct == AlertsRankStep \/ AlertsPctStep

SpecEnginePct == InitEnginePct /\ [][NextEnginePct]_vars

(***************************************************************************)
(* Alert engine: cli.py do_alerts, the lost-spike branch after the loop.   *)
(***************************************************************************)
\* thresholds lost_spike_factor, in tenths (default 2.5)
SpikeFactorChoices == {10, 15, 25}
LostKey == <<"fr:s1-fr", 42, "military_lost">>

\* Mutant: the spike is raised on a zero baseline too.
SpikeReachedAnyBaseline(d_lost, mean_abs, factor10) ==
    Abs(d_lost.points) * 10 * mean_abs.den >= factor10 * mean_abs.num

\* do_alerts, line 669: mean_abs > 0 and abs(d_lost.points) >= lost_spike_factor * mean_abs
SpikeReached(d_lost, mean_abs, factor10) ==
    /\ mean_abs.num > 0
    /\ Abs(d_lost.points) * 10 * mean_abs.den >= factor10 * mean_abs.num

\* [r.points for r in series]
PointsOf(series) == [i \in 1..Len(series) |-> series[i].points]

\* do_alerts, lines 664-682
AlertsLostStep ==
    /\ \E factor10 \in SpikeFactorChoices :
       \E rows \in FetchTwoLatest(snapshots, LostKey) :
         LET d_lost == LastUpdateDeltaOf(rows).delta
             last_lost == LastUpdateDeltaOf(rows).last
         IN  IF last_lost = NoRow \/ ~d_lost.present
             THEN /\ result' = [op |-> "do_alerts_lost", factor10 |-> factor10,
                                last |-> last_lost, delta |-> d_lost, series |-> << >>,
                                raised |-> "", outcome |-> "none"]
                  /\ UNCHANGED <<clock, alerts_log, sent>>
             ELSE \E series \in FetchSeriesLastDays(snapshots, LostKey,
                                                     last_lost.api_timestamp - 7 * 24 * 3600) :
                    LET mean_abs == MeanAbsDelta(PointsOf(series))
                        submit == SpikeReached(d_lost, mean_abs, factor10)
                        call == [op |-> "do_alerts_lost", factor10 |-> factor10,
                                 last |-> last_lost, delta |-> d_lost, series |-> series,
                                 raised |-> IF submit THEN "SPIKE" ELSE "", outcome |-> "none"]
                    IN  IF submit
                        THEN MaybeSendAlertAs(CategoryName("SPIKE", LostKey[3]),
                                              last_lost.api_timestamp, call)
                        ELSE /\ result' = call
                             /\ UNCHANGED <<clock, alerts_log, sent>>
    /\ UNCHANGED <<cooldown_minutes, storeVars, schedVars, locVars, cacheVars, mainVars>>

\* the points of the military_lost rows a cycle runs on, one row a day: a constant
\* series, quiet and busy weeks, a last step at, just below and far above 2.5 times
\* the mean, and a drop
LostSeries ==
    {<< >>, <<100>>, <<100, 100>>, <<100, 110>>, <<100, 100, 100>>,
     <<100, 110, 120, 150>>, <<100, 100, 105, 130>>, <<100, 100, 106, 130>>,
     <<100, 100, 105, 80>>, <<100, 100, 100, 400>>, <<100, 90>>, <<100, 120, 110>>}
\* the same, with the last row eight days after the one before it
LostSeriesAfterGap == {<<100, 150>>, <<100, 110, 150>>}

LostStoreOf(points, gap) ==
    [i \in 1..Len(points) |->
        SnapshotRow(i, LostKey,
                    1000 + 86400 * (i - 1) + (IF i = Len(points) THEN gap ELSE 0),
                    points[i], 200)]

LostStores ==
    {LostStoreOf(points, 0) : points \in LostSeries}
    \cup {LostStoreOf(points, 7 * 86400) : points \in LostSeriesAfterGap}

InitEngineLost ==
    /\ snapshots \in LostStores
    /\ result = NoResult
    /\ clock = 0
    /\ alerts_log = << >>
    /\ sent = << >>
    /\ cooldown_minutes = 180
    /\ SchedIdle
    /\ loc = NoLocator
    /\ players_cache = {}
    /\ cache_txn = NoTxn
    /\ exit_codes = {}

NextEngineLost == AlertsLostStep

SpecEngineLost == InitEngineLost /\ [][NextEngineLost]_vars

(***************************************************************************)
(* Claims about the store and the aggregator (checked under Spec).         *)
(***************************************************************************)
\* the greatest api_timestamp among a non-empty row set
GreatestTs(R) == CHOOSE t \in {r.api_timestamp : r \in R} : \A r \in R : r.api_timestamp <= t

(* C1: insert_snapshot_if_new returns False and leaves the table unchanged
   iff the given api_timestamp equals that of the key's current latest row;
   in every other case (empty key, later, earlier, equal to an older
   non-latest row) it appends exactly one row with the given values and
   returns True. *)
C1_InsertIffNotLatest ==
    [][result'.op = "insert" =>
        LET R == KeyRows(snapshots, result'.key) IN
        IF R # {} /\ result'.api_timestamp = GreatestTs(R)
        THEN result'.ret = FALSE /\ snapshots' = snapshots
        ELSE /\ result'.ret = TRUE
             /\ snapshots' = Append(snapshots,
                    SnapshotRow(Len(snapshots) + 1, result'.key, result'.api_timestamp,
                                result'.points, result'.rank))]_vars

\* a refused re-insert of the latest timestamp, in a store where an earlier
\* call appended a timestamp equal to that of an older, non-latest row
C1_Witness ==
    /\ result.op = "insert" /\ result.ret = FALSE
    /\ \E r1, r2 \in KeyRows(snapshots, result.key) :
         r1.id # r2.id /\ r1.api_timestamp = r2.api_timestamp

(* C9: for a key with at least two snapshots last_update_delta returns as
   last the row with the greatest api_timestamp, and the delta
   points = last.points - prev.points, rank = prev.rank - last.rank against a
   row prev with the next greatest api_timestamp, whatever the insertion
   order; with fewer than two snapshots it returns no delta, together with
   the single row or nothing. *)
C9_LastUpdateDelta ==
    result.op = "last_update_delta" =>
        LET R == KeyRows(snapshots, result.key)
            last == result.last IN
        IF Cardinality(R) >= 2
        THEN /\ last \in R
             /\ \A r \in R : r.api_timestamp <= last.api_timestamp
             /\ \E prev \in R \ {last} :
                  /\ prev.api_timestamp < last.api_timestamp
                  /\ \A r \in R \ {last} : r.api_timestamp <= prev.api_timestamp
                  /\ result.delta.present
                  /\ result.delta.points = last.points - prev.points
                  /\ result.delta.rank = prev.rank - last.rank
        ELSE /\ result.delta = NoDelta
             /\ IF R = {} THEN last = NoRow ELSE R = {last}

\* a delta returned for a key whose latest row was not the last one inserted
C9_Witness ==
    /\ result.op = "last_update_delta" /\ result.delta.present
    /\ \E r \in KeyRows(snapshots, result.key) : r.id > result.last.id

(* C10: daily_recap_delta(start_ts, end_ts) returns a delta iff an
   at-or-before row exists for end_ts and for start_ts and the two rows have
   different api_timestamp; the delta is then
   points = end_row.points - start_row.points and
   rank = start_row.rank - end_row.rank; in every other case no delta. *)
C10_DailyRecapDelta ==
    result.op = "daily_recap_delta" =>
        LET R == KeyRows(snapshots, result.key)
            E == {r \in R : r.api_timestamp <= result.end_ts}
            S == {r \in R : r.api_timestamp <= result.start_ts}
            e == result.end_row
            s == result.start_row IN
        /\ IF E = {} THEN e = NoRow ELSE e \in E /\ e.api_timestamp = GreatestTs(E)
        /\ IF S = {} THEN s = NoRow ELSE s \in S /\ s.api_timestamp = GreatestTs(S)
        /\ result.delta.present <=>
             (E # {} /\ S # {} /\ GreatestTs(E) # GreatestTs(S))
        /\ result.delta.present =>
             /\ result.delta.points = e.points - s.points
             /\ result.delta.rank = s.rank - e.rank
        /\ ~result.delta.present => result.delta = NoDelta

\* a delta over a window whose two edges resolve to different samples
C10_Witness ==
    /\ result.op = "daily_recap_delta" /\ result.delta.present
    /\ result.start_row.api_timestamp < result.start_ts
    /\ result.end_row.api_timestamp = result.end_ts

(***************************************************************************)
(* Claims about the alert gate (checked under SpecAlert).                  *)
(***************************************************************************)
CooldownTicks == cooldown_minutes * 60 * TicksPerSec

(* C2: when two qualifying trigger events for the same (server_key,
   player_id, category) reach _maybe_send_alert less than cooldown_minutes
   apart, exactly one notification is dispatched and exactly one alert-log
   row is appended: any two dispatched notifications of one category lie at
   least the cooldown apart, and each has its one row. *)
C2_OneDispatchWithinCooldown ==
    /\ Len(alerts_log) = Len(sent)
    /\ \A i, j \in 1..Len(sent) :
         (i < j /\ sent[i].category = sent[j].category)
             => sent[j].at - sent[i].at >= CooldownTicks

(* C3: _maybe_send_alert dispatches iff there is no prior alert-log row for
   the category or now minus the created_at of the most recent such row is
   at least the cooldown; it suppresses exactly when that difference is
   strictly less than the cooldown. *)
C3_DispatchIffCooldownElapsed ==
    [][(result'.op = "alert" /\ ~(result' = result /\ alerts_log' = alerts_log)) =>
        LET R == AlertRows(alerts_log, result'.category)
            recent == {r \in R : \A q \in R : FromIso(q.created_at) <= FromIso(r.created_at)} IN
        (result'.outcome # "suppressed")
            <=> (R = {} \/ \A r \in recent : result'.now - FromIso(r.created_at) >= CooldownTicks)]_vars

(***************************************************************************)
(* Claims about the scheduler (checked under SpecSched)                    *)
(***************************************************************************)
\* the steps that are the top of one run_loop iteration
IsTopOfLoopStep == pc = "wake" /\ pc' \in {"collect", "recap", "sleep"}

\* time elapsed at `now` since the latest instant that is `phase` past a multiple of `period`
SincePhase(now, period, phase) == (now - phase) % period

(* C4: at every wake a task is due iff now lies at most graceSeconds after
   the latest boundary of that task, both ends included: collection iff now
   is within [boundary, boundary + 180 s] of the latest HH:MM:10 boundary
   whose minute is a multiple of collect_minutes (for 60: of HH:00:10;
   stated for the periods that divide the hour, where next boundary minus
   one period is that boundary), the recap iff now is within 180 s after
   the latest recap_time:15. *)
C4_DueIffInGraceWindow ==
    [][IsTopOfLoopStep =>
        LET now == wake_now'
            sinceCollect == SincePhase(now, collect_minutes * MinuteTicks,
                                       CollectSecond * TicksPerSec)
            sinceRecap == SincePhase(now, DayTicks,
                                     (recap_time[1] * SecPerHour + recap_time[2] * SecPerMinute
                                      + RecapSecond) * TicksPerSec)
        IN  /\ now = LocalTicks(clock)
            /\ 60 % collect_minutes = 0 =>
                 (due_collect' <=> (sinceCollect <= 180 * TicksPerSec))
            /\ due_recap' <=> (sinceRecap <= 180 * TicksPerSec)
            /\ collect_minutes = 60 =>
                 (due_collect' <=>
                    /\ now % (SecPerHour * TicksPerSec) >= 10 * TicksPerSec
                    /\ now % (SecPerHour * TicksPerSec) <= 190 * TicksPerSec)]_vars

\* a wake at the last instant of the hourly window, where collection is due
C4_Witness ==
    /\ pc = "collect"
    /\ collect_minutes = 60
    /\ due_collect
    /\ wake_now % (SecPerHour * TicksPerSec) = 190 * TicksPerSec

\* what one wake runs, in order, given what is due
ExpectedRun(dc, dr) ==
    (IF dc THEN <<"collect", "alerts">> ELSE << >>) \o (IF dr THEN <<"recap">> ELSE << >>)

IsPrefix(a, b) == Len(a) <= Len(b) /\ \A i \in 1..Len(a) : a[i] = b[i]

(* C5: within one wake the tasks invoked so far are a prefix of Collect,
   Alert Engine, Recap restricted to what is due: the Alert Engine is only
   invoked right after the Collect of the same wake, the Recap only after
   both when collection is due, and a wake that reaches its sleep has run
   exactly the due tasks. *)
C5_CollectAlertsRecapOrder ==
    /\ IsPrefix(ran, ExpectedRun(due_collect, due_recap))
    /\ \A i \in 1..Len(ran) :
         /\ ran[i] = "alerts" => (i > 1 /\ ran[i - 1] = "collect")
         /\ ran[i] = "recap" => (due_collect => (i = 3 /\ ran[1] = "collect" /\ ran[2] = "alerts"))
    /\ pc = "alerts" => ran = <<"collect">>
    /\ pc = "sleep" => ran = ExpectedRun(due_collect, due_recap)

\* a wake in which all three tasks ran
C5_Witness == pc = "sleep" /\ ran = <<"collect", "alerts", "recap">>

(* C6: across wakes and restarts on one store no date is the date of two
   posted recaps; the recap task does nothing exactly when the marker it
   reads equals today's date, and the marker is the date of the latest
   posted recap (unset while nothing was posted). *)
C6_RecapOncePerDate ==
    /\ \A i, j \in 1..Len(posted) : posted[i] = posted[j] => i = j
    /\ IF posted = << >> THEN recap_last_date = -1
                         ELSE recap_last_date = posted[Len(posted)]
    /\ result.op = "recap" =>
         ((result.outcome = "noop") <=> (result.last_date = result.today))

\* after a restart, a due recap found the marker at today's date and did nothing
C6_Witness ==
    /\ restarts >= 1
    /\ Len(posted) >= 1
    /\ result.op = "recap"
    /\ result.outcome = "noop"
    /\ result.today = recap_last_date

(***************************************************************************)
(* Claims about the rank locator (checked under SpecLocator)               *)
(***************************************************************************)
\* the target is in the list, at most 50 ranks away from a positive hint
LocNearHint ==
    /\ loc.hint_rank > 0
    /\ loc.target >= 1
    /\ loc.target <= loc.total
    /\ loc.target >= loc.hint_rank - 50
    /\ loc.target <= loc.hint_rank + 50

\* what the locator has to return for the target
LocTargetTriple == <<ListTimestamp, PointsAt(loc.target), loc.target>>

(* C7: when the target's rank is within 50 of a positive hint, the locator
   never starts the sequential scan and never fails: it is still probing or
   has returned the target's timestamp, points and rank, and it has fetched
   at most 9 blocks, all of them hint probes. *)
C7_NearHintFoundByProbes ==
    (loc.pc # "idle" /\ LocNearHint) =>
        /\ loc.pc \in {"hint", "done"}
        /\ ~loc.scanned
        /\ loc.start = 0
        /\ loc.fetches <= 9
        /\ loc.fetches = IF loc.pc = "done" THEN loc.k + 1 ELSE loc.k
        /\ loc.pc = "done" => loc.ret = LocTargetTriple

\* a target 50 ranks above a hint deep in the list, found by a hint probe
C7_Witness ==
    /\ loc.pc = "done"
    /\ loc.hint_rank >= 300
    /\ loc.target = loc.hint_rank - 50
    /\ loc.fetches >= 1
    /\ ~loc.scanned
    /\ loc.ret = LocTargetTriple

\* the target is in the list and below the safety cap of the scan
LocPresent ==
    /\ loc.target >= 1
    /\ loc.target <= loc.total
    /\ loc.target <= ScanCap

(* C8: when the target is in the list and below the safety cap, the locator
   never gives up, whatever the hint: the sequential scan never passes the
   target's offset, and what the locator returns is the target's timestamp,
   points and rank. *)
C8_PresentTargetFound ==
    (loc.pc # "idle" /\ LocPresent) =>
        /\ loc.pc # "PlayerNotFound"
        /\ loc.pc = "scan" => loc.start <= loc.target - 1
        /\ loc.pc = "done" => loc.ret = LocTargetTriple

\* a target that left the whole probed region of a stale hint, found by the scan
C8_Witness ==
    /\ loc.pc = "done"
    /\ loc.hint_rank = 5000
    /\ loc.target = 200000
    /\ loc.fetches > 9
    /\ loc.scanned
    /\ loc.ret = LocTargetTriple

(***************************************************************************)
(* Claims about the windowed queries (checked under SpecQuery)             *)
(***************************************************************************)
\* the stored rows of a key with api_timestamp in [lo, hi]
RowsBetween(key, lo, hi) ==
    {r \in KeyRows(snapshots, key) : lo <= r.api_timestamp /\ r.api_timestamp <= hi}

\* the stored rows of a key at or before / after a timestamp
RowsUpTo(key, hi) == {r \in KeyRows(snapshots, key) : r.api_timestamp <= hi}
RowsAfter(key, lo) == {r \in KeyRows(snapshots, key) : r.api_timestamp > lo}

(* C11: whenever rolling_24h_delta returns a delta, its baseline is a row
   at or before latest.api_timestamp - 86400 (the latest such row), the
   delta is latest minus baseline, and when the key has no row that old no
   delta is returned. *)
C11_BaselineAtLeast24hOld ==
    result.op = "rolling_24h_delta" =>
        LET old == RowsUpTo(result.key, result.last.api_timestamp - 86400) IN
        /\ result.delta.present =>
             /\ result.base \in old
             /\ \A q \in old : q.api_timestamp <= result.base.api_timestamp
             /\ result.delta = RowDelta(result.last, result.base)
        /\ old = {} => ~result.delta.present

(* C12: rolling_24h_delta returns the absent delta, not a zero delta, when
   the baseline it finds carries the api_timestamp of the latest snapshot,
   in particular when the key holds a single snapshot; for a key without
   snapshots it returns no row and no delta. *)
C12_NoDeltaOnSameTimestamp ==
    result.op = "rolling_24h_delta" =>
        LET R == KeyRows(snapshots, result.key) IN
        /\ R = {} => (result.last = NoRow /\ result.delta = NoDelta)
        /\ R # {} => (result.last \in R /\
                      \A q \in R : q.api_timestamp <= result.last.api_timestamp)
        /\ (R # {} /\ result.base # NoRow
              /\ result.base.api_timestamp = result.last.api_timestamp)
             => result.delta = NoDelta
        /\ Cardinality(R) = 1 => (result.base = result.last /\ result.delta = NoDelta)
        /\ result.delta.present =>
             (result.base \in R /\ result.base.api_timestamp # result.last.api_timestamp)

\* the key holds one snapshot, found again as its own baseline: no delta
C12_Witness ==
    /\ result.op = "rolling_24h_delta"
    /\ Cardinality(KeyRows(snapshots, result.key)) = 1
    /\ result.last # NoRow
    /\ result.base = result.last
    /\ result.delta = NoDelta

(* C18: fetch_snapshot_at_or_before returns a row of the key whose
   api_timestamp is the greatest one not above the bound, and absent when
   the key has no row at or before the bound; never a later row, never a
   row of another key. *)
C18_AtOrBefore ==
    result.op = "fetch_snapshot_at_or_before" =>
        LET R == RowsUpTo(result.key, result.api_timestamp_max) IN
        IF R = {} THEN result.row = NoRow
        ELSE /\ result.row \in R
             /\ result.row.key = result.key
             /\ result.row.api_timestamp <= result.api_timestamp_max
             /\ \A q \in R : q.api_timestamp <= result.row.api_timestamp

\* a row exactly at the bound is returned while the key also holds a later row and
\* another key holds a row too
C18_Witness ==
    /\ result.op = "fetch_snapshot_at_or_before"
    /\ result.row # NoRow
    /\ result.row.api_timestamp = result.api_timestamp_max
    /\ \E q \in KeyRows(snapshots, result.key) : q.api_timestamp > result.api_timestamp_max
    /\ \E i \in 1..Len(snapshots) : snapshots[i].key # result.key

(* C19: fetch_snapshot_near_or_before returns the at-or-before row when the
   key has one; only when it has none, the row with the smallest
   api_timestamp after the target; absent exactly when the key holds no
   snapshot. *)
C19_NearOrBefore ==
    result.op = "fetch_snapshot_near_or_before" =>
        LET before == RowsUpTo(result.key, result.target_ts)
            after == RowsAfter(result.key, result.target_ts)
        IN  /\ before # {} =>
                 /\ result.row \in before
                 /\ \A q \in before : q.api_timestamp <= result.row.api_timestamp
            /\ (before = {} /\ after # {}) =>
                 /\ result.row \in after
                 /\ \A q \in after : q.api_timestamp >= result.row.api_timestamp
            /\ (result.row = NoRow) <=> (KeyRows(snapshots, result.key) = {})

\* no row at or before the target: of two later rows the earlier one is returned
C19_Witness ==
    /\ result.op = "fetch_snapshot_near_or_before"
    /\ RowsUpTo(result.key, result.target_ts) = {}
    /\ Cardinality(RowsAfter(result.key, result.target_ts)) >= 2
    /\ result.row # NoRow
    /\ result.row.api_timestamp > result.target_ts
    /\ \E q \in KeyRows(snapshots, result.key) :
         q.api_timestamp > result.row.api_timestamp

(* C20: weekly_series(end_ts) returns, in ascending api_timestamp order,
   exactly the snapshots of the key with api_timestamp in
   [end_ts - 7 days, end_ts]. *)
C20_WeeklySeriesWindow ==
    result.op = "weekly_series" =>
        LET series == result.series IN
        /\ {series[i] : i \in 1..Len(series)}
             = RowsBetween(result.key, result.end_ts - 604800, result.end_ts)
        /\ \A i, j \in 1..Len(series) :
             i < j => (series[i] # series[j]
                       /\ series[i].api_timestamp <= series[j].api_timestamp)

(***************************************************************************)
(* Claims about mean_abs_delta (checked under SpecMean)                    *)
(***************************************************************************)
RECURSIVE TotalVariation(_)
\* the sum of the absolute differences of consecutive elements
TotalVariation(xs) ==
    IF Len(xs) < 2 THEN 0 ELSE Abs(xs[2] - xs[1]) + TotalVariation(Tail(xs))

(* C13: mean_abs_delta(series) is the sum of the absolute differences of
   consecutive elements divided by (length - 1) for a series of length at
   least 2, and 0 for a series of length 0 or 1; for [10, 15, 5] it is 7.5. *)
C13_MeanAbsDelta ==
    result.op = "mean_abs_delta" =>
        LET xs == result.points_series
            ret == result.ret
        IN  /\ ret.den > 0
            /\ Len(xs) < 2 => ret.num = 0
            /\ Len(xs) >= 2 => ret.num * (Len(xs) - 1) = TotalVariation(xs) * ret.den
            /\ xs = <<10, 15, 5>> => 2 * ret.num = 15 * ret.den

\* mean_abs_delta([10, 15, 5]) = 7.5
C13_Witness ==
    /\ result.op = "mean_abs_delta"
    /\ result.points_series = <<10, 15, 5>>
    /\ 2 * result.ret.num = 15 * result.ret.den

(***************************************************************************)
(* Claims about the players cache (checked under SpecCache)                *)
(***************************************************************************)
\* the rows of players_cache of one server_key
CacheOf(cache, server_key) == {r \in cache : r.server_key = server_key}

(* C14: every completed replace_players_cache call leaves, for its
   server_key, exactly one row per supplied player and no other row, all
   with the call's fetched_at, and leaves the rows of every other
   server_key as they were; so at any time the rows of a server_key stem
   from one call. *)
C14_CacheFullyReplaced ==
    [][(result'.op = "replace_players_cache" /\ result'.outcome = "ok"
          /\ ~(result' = result /\ players_cache' = players_cache)) =>
        LET sk == result'.server_key
            players == result'.players
            mine == CacheOf(players_cache', sk)
        IN  /\ {<<r.player_id, r.player_name>> : r \in mine}
                 = {players[i] : i \in 1..Len(players)}
            /\ Cardinality(mine) = Len(players)
            /\ \A r \in mine : r.fetched_at = result'.fetched_at
            /\ \A other \in ServerKeys \ {sk} :
                 CacheOf(players_cache', other) = CacheOf(players_cache, other)
            /\ \A k \in ServerKeys : \A r, q \in CacheOf(players_cache', k) :
                 r.fetched_at = q.fetched_at]_vars

\* a refresh replaced the two players of an earlier refresh by two others, one of
\* them under an id seen before, while the other server's rows stayed
C14_Witness ==
    /\ result.op = "replace_players_cache"
    /\ result.outcome = "ok"
    /\ result.server_key = "fr:s1-fr"
    /\ result.fetched_at = 2
    /\ {r.player_id : r \in CacheOf(players_cache, "fr:s1-fr")} = {2, 3}
    /\ \A r \in CacheOf(players_cache, "fr:s1-fr") : r.fetched_at = 2
    /\ \E r \in CacheOf(players_cache, "fr:s2-fr") : r.fetched_at = 1

(***************************************************************************)
(* Claims about the API client (checked under SpecApi)                     *)
(***************************************************************************)
\* the bodies of a shape the parsers know
RecognizedBodies == {"json_known", "xml_known", "xml_empty"}

(* C15: fetch_highscore_block and fetch_players return data only when they
   parsed a body of a recognized shape, and otherwise raise ApiError: a
   call that got no body (the transport failed through the retries) or a
   body of no known shape raises ApiError, never another error, and never
   returns a result with an empty entry list. *)
C15_ParsedOrApiError ==
    result.op \in {"fetch_highscore_block", "fetch_players"} =>
        /\ result.ret.status \in {"ok", "ApiError"}
        /\ result.ret.status = "ok" => result.body \in RecognizedBodies
        /\ result.body \notin RecognizedBodies => result.ret.status = "ApiError"

(***************************************************************************)
(* Claims about failing tasks (checked under SpecSched)                    *)
(***************************************************************************)
\* a step in which the task the scheduler stands at is invoked and raises
TaskRaises ==
    /\ pc \in {"collect", "alerts", "recap"}
    /\ ran' = Append(ran, pc)
    /\ result'.outcome = "raised"

(* C16: run_loop does not catch: when collect_fn, alerts_fn or recap_fn
   raises, the process ends at that point; from there no task of the wake
   runs and no iteration starts, the only continuation is a new process
   that begins a fresh wake. *)
C16_RaiseEndsTheRun ==
    [][/\ TaskRaises => pc' = "dead"
       /\ pc = "dead" => (pc' = "wake" /\ restarts' = restarts + 1 /\ ran' = << >>)]_vars

\* collect_fn raised in a wake where the recap was due too: neither the Alert Engine
\* nor the Recap ran
C16_Witness ==
    /\ pc = "dead"
    /\ due_collect
    /\ due_recap
    /\ ran = <<"collect">>
    /\ result = TaskRaised("collect")

(***************************************************************************)
(* Claims about main (checked under SpecMain)                              *)
(***************************************************************************)
(* C17: the exit code of main tells the error category: two runs that end
   in errors of different categories (configuration, not found, API, logic)
   never return the same code, and a PlayerNotFound is never reported with
   the code of the generic ApiError. *)
C17_ExitCodePerCategory ==
    /\ \A p, q \in exit_codes : p.category # q.category => p.code # q.code
    /\ (result.op = "main" /\ result.raised.class = "PlayerNotFound")
         => result.ret # ExitCode("ApiError")

(***************************************************************************)
(* Claims about the highscore parsers (checked under SpecParse)            *)
(***************************************************************************)
\* the positions of the elements of a document whose id and rank are both non-zero
ValidPositions(doc) ==
    {i \in 1..Len(doc.players) :
        IntOf(doc.players[i].id) # 0 /\ IntOf(doc.players[i].position) # 0}

(* C21: every entry of a parsed ranked block has a non-zero player id and a
   non-zero rank: the XML and the JSON parser drop each element whose id is
   0 or whose rank is 0, keep every other element in document order with
   its id, rank and points, and take the block timestamp and the optional
   total from the root. *)
C21_ParsedBlockEntries ==
    result.op = "parse_highscore" =>
        LET doc == result.doc
            ret == result.ret
            valid == ValidPositions(doc)
        IN  /\ \A k \in 1..Len(ret.entries) :
                 ret.entries[k].player_id # 0 /\ ret.entries[k].rank # 0
            /\ Len(ret.entries) = Cardinality(valid)
            /\ \A i \in valid :
                 LET k == Cardinality({j \in valid : j <= i}) IN
                 /\ ret.entries[k].player_id = IntOf(doc.players[i].id)
                 /\ ret.entries[k].rank = IntOf(doc.players[i].position)
                 /\ ret.entries[k].points = IntOf(doc.players[i].score)
            /\ ret.api_timestamp = IntOf(doc.timestamp)
            /\ ret.total = (IF doc.total = "" THEN << >> ELSE <<IntOf(doc.total)>>)

C21_Witness ==
    /\ result.op = "parse_highscore"
    /\ result.format = "json"
    /\ Len(result.doc.players) = 2
    /\ result.doc.players[1].id = "42"
    /\ result.doc.players[1].position = "0"
    /\ result.doc.players[2].id = "42"
    /\ result.doc.players[2].position = "7"
    /\ Len(result.ret.entries) = 1
    /\ result.ret.total = <<3>>

(***************************************************************************)
(* Claims about the HTTP attempts of one fetch (checked under SpecApi)     *)
(***************************************************************************)
\* the positions of the GETs in the log of a call, and the k-th of them
GetPositions(http) == {i \in 1..Len(http) : http[i].ev = "get"}
NthGet(http, k) ==
    CHOOSE i \in GetPositions(http) : Cardinality({j \in GetPositions(http) : j <= i}) = k

(* C22: one resource fetch by the API client issues at most 3 HTTP attempts,
   waits 0.6 s after the first failed attempt and 1.2 s after the second,
   returns the first successful response without further attempts, and
   raises ApiError as soon as the third attempt has failed. *)
C22_ThreeAttemptsWithBackoff ==
    result.op \in {"fetch_highscore_block", "fetch_players"} =>
        LET http == result.http
            gets == GetPositions(http)
        IN  /\ Cardinality(gets) <= Tries
            /\ \A k \in 1..(Tries - 1) :
                 (k <= Cardinality(gets) /\ ~http[NthGet(http, k)].ok) =>
                     LET i == NthGet(http, k) IN
                     /\ i < Len(http)
                     /\ http[i + 1].ev = "sleep"
                     /\ http[i + 1].tenths = Backoff(k - 1)
            /\ \A i \in gets : http[i].ok => i = Len(http)
            /\ (Cardinality(gets) >= Tries /\ ~http[NthGet(http, Tries)].ok) =>
                 /\ NthGet(http, Tries) = Len(http)
                 /\ result.ret.status = "ApiError"

(* C29: every successful result of fetch_highscore_block(type_id, start,
   end) comes from an HTTP request that carried exactly that type and that
   [start, end] window, on every path including the one taken after the
   first request attempt failed. *)
C29_ResultFromRequestedWindow ==
    (result.op = "fetch_highscore_block" /\ result.ret.status = "ok") =>
        LET http == result.http
            answered == CHOOSE i \in GetPositions(http) :
                            \A j \in GetPositions(http) : j <= i
        IN  http[answered].ok /\ http[answered].params

(***************************************************************************)
(* Claims about next_aligned_collect (checked under SpecAlign)             *)
(***************************************************************************)
MinuteOfHour(t) == (t \div MinuteTicks) % 60
\* an instant at second 10 of a minute that is a multiple of every_minutes past the hour
IsAligned(t, every_minutes) ==
    /\ MinuteOfHour(t) % every_minutes = 0
    /\ t % MinuteTicks = CollectSecond * TicksPerSec
\* the boundary of the bucket of now: second 10 of the last aligned minute at or before now
BucketBoundary(now, every_minutes) ==
    LET base == now \div MinuteTicks
        start == CHOOSE k \in 0..base :
                    /\ (k % 60) % every_minutes = 0
                    /\ \A j \in (k + 1)..base : (j % 60) % every_minutes # 0
    IN  start * MinuteTicks + CollectSecond * TicksPerSec

(* C23: for every now and every collectMinutes in 1..1440,
   next_aligned_collect returns an instant strictly later than now whose
   minute-of-hour is a multiple of collectMinutes past the hour and whose
   seconds equal the fixed offset 10; it is the earliest such instant after
   now's bucket. *)
C23_NextAlignedCollect ==
    result.op = "next_aligned_collect" =>
        LET now == result.now
            every == result.every_minutes
            ret == result.ret
            boundary == BucketBoundary(now, every)
        IN  /\ ret > now
            /\ IsAligned(ret, every)
            /\ ret > boundary
            /\ \A k \in 1..((ret - boundary) \div MinuteTicks - 1) :
                 ~IsAligned(boundary + k * MinuteTicks, every)

(***************************************************************************)
(* Claims about the alert engine (checked under SpecEngine)                *)
(***************************************************************************)
(* C24: for each headline metric in one alert cycle, TOP is raised iff the
   last-update rank delta >= jumpThreshold, FLOP is raised iff TOP was not
   raised and the rank delta <= -dropThreshold, and for every threshold
   configuration at most one of TOP and FLOP is raised for that metric. *)
C24_TopFlopExclusive ==
    (result.op = "do_alerts" /\ result.delta.present) =>
        LET top == result.raised = "TOP"
            flop == result.raised = "FLOP"
        IN  /\ top <=> result.delta.rank >= result.jump
            /\ flop <=> (~top /\ result.delta.rank <= -result.drop)
            /\ ~(top /\ flop)
            /\ result.outcome = "sent" =>
                 /\ alerts_log # << >>
                 /\ alerts_log[Len(alerts_log)].category
                      = CategoryName(result.raised, result.key[3])

\* both conditions hold and TOP is the one raised
C24_Witness ==
    /\ result.op = "do_alerts"
    /\ result.delta.present
    /\ result.delta.rank >= result.jump
    /\ result.delta.rank <= -result.drop
    /\ result.raised = "TOP"
    /\ result.outcome = "sent"

\* a drop beyond the threshold raises FLOP
C24_WitnessFlop ==
    /\ result.op = "do_alerts"
    /\ result.delta.rank = -30
    /\ result.drop = 25
    /\ result.raised = "FLOP"
    /\ result.outcome = "sent"

(***************************************************************************)
(* Claims about join_public_url (checked under SpecUrl)                    *)
(***************************************************************************)
\* a text without the blanks around it
Trimmed(text) ==
    LET inked == {i \in 1..Len(text) : text[i] # " "} IN
    IF inked = {} THEN << >>
    ELSE SubSeq(text, CHOOSE i \in inked : \A j \in inked : i <= j,
                      CHOOSE i \in inked : \A j \in inked : i >= j)
\* a text without one slash at its end / without the slashes at its start
WithoutEndSlash(text) ==
    IF text # << >> /\ text[Len(text)] = "/" THEN SubSeq(text, 1, Len(text) - 1) ELSE text
WithoutStartSlashes(text) ==
    LET other == {i \in 1..Len(text) : text[i] # "/"} IN
    IF other = {} THEN << >>
    ELSE SubSeq(text, CHOOSE i \in other : \A j \in other : i <= j, Len(text))

(* C25: join_public_url(base, path) returns base and path joined by exactly
   one '/' whether or not base ends with '/' and whether or not path starts
   with '/'; when base is empty it returns path, and when path is empty it
   returns base (base and path taken without the blanks around them). *)
C25_JoinedByOneSlash ==
    result.op = "join_public_url" =>
        LET base == Trimmed(result.public_base_url)
            path == Trimmed(result.path)
        IN  /\ base = << >> => result.ret = path
            /\ path = << >> => result.ret = base
            /\ (base # << >> /\ path # << >>) =>
                 result.ret = WithoutEndSlash(base) \o <<"/">> \o WithoutStartSlashes(path)

C25_Witness ==
    /\ result.op = "join_public_url"
    /\ result.public_base_url = <<"x", "/">>
    /\ result.path = <<"/", "x">>
    /\ result.ret = <<"x", "/", "x">>

(***************************************************************************)
(* Claims about publish_report (checked under SpecPublish)                 *)
(***************************************************************************)
(* C26: publish_report raises FileNotFoundError when the report file is
   missing and ValueError when latest_filename contains a path separator,
   copying no file in either case; otherwise it copies the report to
   publish_dir/latest_filename and, when keep_history is set and the
   report's name differs from latest_filename, also to publish_dir under
   the report's own name. *)
C26_PublishReport ==
    result.op = "publish_report" =>
        LET ret == result.ret
            latest == IF result.latest_filename = "" THEN "latest.html"
                      ELSE result.latest_filename
            name == result.report_path[2]
        IN  IF ~result.exists
            THEN ret.status = "FileNotFoundError" /\ ret.copied = << >>
            ELSE IF latest \in WithPathSeparator
            THEN ret.status = "ValueError" /\ ret.copied = << >>
            ELSE /\ ret.status = "ok"
                 /\ ret.copied =
                      (IF result.keep_history /\ name # latest
                       THEN <<(<<PublishDir, latest>>), (<<PublishDir, name>>)>>
                       ELSE <<(<<PublishDir, latest>>)>>)

(***************************************************************************)
(* Claims about the boundaries the scheduler serves (checked under         *)
(* SpecSched)                                                              *)
(***************************************************************************)
\* the wake run_loop computes at its lines 43-46 when it is at `now`
NextWake(now) ==
    Min(NextAlignedCollect(now, collect_minutes), NextRecapTime(now, recap_time))

(* C27: while the loop runs and the tasks of a wake take less than
   graceSeconds, every daily recap boundary is followed by a wake within
   graceSeconds of it, at which the recap task is invoked: also when a
   collection boundary lies a few seconds before the recap boundary and
   Collect is still running when the recap boundary passes. *)
C27_RecapBoundaryServed ==
    pc = "sleep" =>
        LET now == LocalTicks(clock)
            boundary == NextRecapTime(now, recap_time) - DayTicks
        IN  (/\ wake_now < boundary
             /\ boundary <= now
             /\ now - wake_now < GraceS * TicksPerSec)
            => NextWake(now) <= boundary + GraceS * TicksPerSec

(* C28: whenever the scheduler wakes from sleeping until the next
   collection boundary it computed, with an overshoot within graceSeconds,
   the due check of that wake is true for collection: every collection
   boundary the scheduler sleeps for is followed by a collection. *)
C28_SleptForBoundaryCollected ==
    [][(pc = "sleep" /\ pc' = "wake") =>
          LET now == LocalTicks(clock)
              next_collect == NextAlignedCollect(now, collect_minutes)
              woke == LocalTicks(clock')
          IN  (/\ next_collect < NextRecapTime(now, recap_time)
               /\ now <= next_collect
               /\ woke - next_collect <= GraceS * TicksPerSec)
              => Due(woke, NextAlignedCollect(woke, collect_minutes)
                            - collect_minutes * MinuteTicks)]_vars

(***************************************************************************)
(* Claims about alerts and snapshots (checked under SpecAlert, where       *)
(* every evaluation is of the same unchanged latest snapshot)              *)
(***************************************************************************)
(* C30: alerts are deduplicated per triggering snapshot: for each category,
   one snapshot (one api_timestamp of the latest row) leads to at most one
   dispatched notification and one alert-log row, however many later
   cycles re-evaluate the same unchanged latest snapshot. *)
C30_OneAlertPerSnapshot ==
    /\ Len(sent) = Len(alerts_log)
    /\ \A i, j \in 1..Len(alerts_log) :
         (i < j /\ alerts_log[i].category = alerts_log[j].category)
         => alerts_log[i].api_timestamp # alerts_log[j].api_timestamp

(***************************************************************************)
(* Claims about one store handle that stays in use after a failure         *)
(***************************************************************************)

(* C31: after replace_players_cache failed part-way, every later read
   through the same handle returns the committed (previous) generation of
   the server_key, and the next commit leaves the committed rows of
   players_cache as they were: no empty or partly inserted generation is
   seen or made durable. *)
C31_FailedSwapKeepsGeneration ==
    [][/\ (result'.op = "read_players_cache" =>
              result'.rows = CacheOf(players_cache, result'.server_key))
       /\ (result'.op = "commit" => players_cache' = players_cache)]_vars

(***************************************************************************)
(* Claims about the recap boundary (checked under SpecSched)               *)
(***************************************************************************)

(* C32: each recap boundary leads to at most one posted recap: of the
   wakes that fall into the grace window of one boundary only the first
   posts, also when the window spans midnight. *)
C32_OnePostPerBoundary ==
    \A i, j \in 1..Len(posted_for) : posted_for[i] = posted_for[j] => i = j

(***************************************************************************)
(* Claims about the rank locator over any resource (SpecLocatorAny)        *)
(***************************************************************************)

\* the fetched block contains the target
BlockHasTarget(snap) == \E e \in snap.entries : e.player_id = TargetId

(* C33: the sequential scan runs only with no usable hint or after the nine
   hint probes missed; its fetches ask for the blocks at offsets 0, W, 2W,
   ... (W = 500) in that order; it stops at the first block that contains
   the target (returning the timestamp, points and rank of the target's
   entry), or with the offset at or beyond the reported total, or with a
   block without entries, or when the next offset exceeds 200000; stopping
   without the target raises PlayerNotFound and returns nothing. *)
C33_SequentialScan ==
    [][loc.pc = "scan" =>
         LET off == 500 * (loc.fetches - loc.k)
             snap == loc'.snap
             found == BlockHasTarget(snap)
             stop == \/ found
                     \/ (snap.total # 0 /\ off >= snap.total)
                     \/ snap.entries = {}
                     \/ off + 500 > 200000
         IN  /\ (loc.hint_rank <= 0 /\ loc.k = 0) \/ (loc.hint_rank > 0 /\ loc.k = 9)
             /\ loc'.fetches = loc.fetches + 1
             /\ loc'.req = <<off, off + 499>>
             /\ found => /\ loc'.pc = "done"
                          /\ \E e \in snap.entries :
                               /\ e.player_id = TargetId
                               /\ loc'.ret = <<snap.api_timestamp, e.points, e.rank>>
             /\ (~found /\ stop) => (loc'.pc = "PlayerNotFound" /\ loc'.ret = << >>)
             /\ ~stop => (loc'.pc = "scan" /\ loc'.ret = << >>)]_vars

\* after nine missed probes the scan reached the cap on blocks that had entries
\* but not the target, and gave up
C33_Witness ==
    /\ loc.pc = "PlayerNotFound"
    /\ loc.k = 9
    /\ loc.fetches = 9 + 401
    /\ loc.req = <<200000, 200499>>
    /\ loc.snap.entries = {OtherEntry}
    /\ loc.snap.total = 300000

\* the scan found the target in its third block
C33_WitnessFound ==
    /\ loc.pc = "done"
    /\ loc.hint_rank = 0
    /\ loc.req = <<1000, 1499>>
    /\ loc.ret = <<ListTimestamp, TargetEntry.points, TargetEntry.rank>>

(* C34: with a positive hint the hint probes go span by span in the order
   250, 1000, 3000 and, within a span, to the offsets s, s + span,
   s + 2 * span with s = max(0, hint - span - 1); each probe asks for
   [offset, offset + 499]; there are at most 9 of them, and the first probe
   whose block contains the target returns its entry and is the last fetch. *)
C34_HintProbeOrder ==
    [][/\ loc.pc = "hint" =>
            LET span == <<250, 1000, 3000>>[(loc.fetches \div 3) + 1]
                s == Max(0, loc.hint_rank - span - 1)
                off == s + (loc.fetches % 3) * span
                found == BlockHasTarget(loc'.snap)
            IN  /\ loc.hint_rank > 0
                /\ loc.fetches <= 8
                /\ loc'.fetches = loc.fetches + 1
                /\ loc'.req = <<off, off + 499>>
                /\ found => /\ loc'.pc = "done"
                             /\ loc'.ret = <<loc'.snap.api_timestamp,
                                             TargetEntry.points, TargetEntry.rank>>
                /\ ~found => loc'.pc = (IF loc.fetches = 8 THEN "scan" ELSE "hint")
       /\ loc.pc = "done" => loc' = loc]_vars

\* the ninth probe of a hint deep in the list found the target
C34_Witness ==
    /\ loc.pc = "done"
    /\ loc.hint_rank = 5000
    /\ loc.fetches = 9
    /\ ~loc.scanned
    /\ loc.req = <<7999, 8498>>
    /\ BlockHasTarget(loc.snap)

(* C35: for every hint and whatever blocks the resource returns (also a
   list that reports no total and never returns an empty block),
   _fetch_player_highscore terminates, with a result or with
   PlayerNotFound, and it never makes more than 9 hint probes plus 401
   sequential fetches. *)
C35_LocatorTerminates ==
    /\ [](/\ loc.k <= 9
          /\ loc.scanned => loc.fetches - loc.k <= 401
          /\ loc.fetches <= 9 + 401)
    /\ <>(loc.pc \in {"done", "PlayerNotFound"})

\* the longest run: nine missed probes, then 401 blocks with entries and no total
C35_Witness ==
    /\ loc.pc = "PlayerNotFound"
    /\ loc.hint_rank > 0
    /\ loc.fetches = 9 + 401
    /\ loc.snap.total = 0
    /\ loc.snap.entries # {}

(***************************************************************************)
(* Claims about the alert log as a whole (checked under SpecAlert)         *)
(***************************************************************************)

(* C36: after any sequence of alert evaluations under a non-decreasing
   clock, any two alert-log rows of the same category have created_at
   instants at least the cooldown apart. *)
C36_RowsCooldownApart ==
    \A i, j \in 1..Len(alerts_log) :
        (i < j /\ alerts_log[i].category = alerts_log[j].category)
            => FromIso(alerts_log[j].created_at) - FromIso(alerts_log[i].created_at)
                 >= cooldown_minutes * 60 * TicksPerSec

(***************************************************************************)
(* Claims about the snapshot log as a whole (checked under Spec)           *)
(***************************************************************************)

(* C37: after any sequence of insert_snapshot_if_new calls the greatest
   api_timestamp of each key is held by exactly one row, so
   get_latest_snapshot has one possible answer, and a key with two or more
   rows has two rows with different api_timestamp: rows with equal
   api_timestamp exist only below the key's maximum. *)
C37_LatestIsUnique ==
    \A key \in Keys :
        LET R == KeyRows(snapshots, key) IN
        R # {} =>
            /\ Cardinality({r \in R : r.api_timestamp = GreatestTs(R)}) = 1
            /\ Cardinality(GetLatestSnapshot(snapshots, key)) = 1
            /\ Cardinality(R) >= 2 =>
                  \E r, q \in R : r.api_timestamp # q.api_timestamp
            /\ \A r, q \in R :
                  (r # q /\ r.api_timestamp = q.api_timestamp)
                      => r.api_timestamp < GreatestTs(R)

\* a key with three rows, two of them with the same api_timestamp below the latest
C37_Witness ==
    \E key \in Keys :
        LET R == KeyRows(snapshots, key) IN
        /\ Cardinality(R) = 3
        /\ \E r, q \in R : r # q /\ r.api_timestamp = q.api_timestamp
        /\ result.op = "insert"
        /\ result.ret = TRUE

(***************************************************************************)
(* Claims about both logs (checked under SpecLogs)                         *)
(***************************************************************************)

\* log `after` is log `before` with rows appended
Extends(after, before) ==
    /\ Len(after) >= Len(before)
    /\ SubSeq(after, 1, Len(before)) = before

(* C38: the snapshot log and the alert log are append-only: every step
   leaves each existing row of both logs as it was and in its place, the
   row counts never decrease, and an insert under one key leaves the rows
   and the answers of every query on every other key unchanged. *)
C38_LogsAppendOnly ==
    [][/\ Extends(snapshots', snapshots)
       /\ Extends(alerts_log', alerts_log)
       /\ result'.op = "insert" =>
            \A key \in Keys \ {result'.key} :
                /\ KeyRows(snapshots', key) = KeyRows(snapshots, key)
                /\ GetLatestSnapshot(snapshots', key) = GetLatestSnapshot(snapshots, key)
                /\ FetchTwoLatest(snapshots', key) = FetchTwoLatest(snapshots, key)
                /\ \A ts \in Timestamps :
                     FetchSnapshotAtOrBefore(snapshots', key, ts)
                         = FetchSnapshotAtOrBefore(snapshots, key, ts)]_vars

\* rows under two keys and an alert row are stored, and an insert under a key
\* that already had a row was accepted
C38_Witness ==
    /\ Len(alerts_log) >= 1
    /\ \A key \in Keys : KeyRows(snapshots, key) # {}
    /\ result.op = "insert"
    /\ result.ret = TRUE
    /\ Cardinality(KeyRows(snapshots, result.key)) >= 2

(***************************************************************************)
(* Claims about the percent and spike branches of the alert engine         *)
(***************************************************************************)

\* the claim's condition on the store: a rolling 24 h delta is present and
\* |delta.points| >= threshold * max(1, last.points - delta.points)
PctMovement(snaps, key, permille) ==
    \E r \in Rolling24hAnswers(snaps, key) :
        /\ r.delta.present
        /\ Abs(r.delta.points) * 1000 >= permille * Max(1, r.last.points - r.delta.points)

(* C39: the percent-movement check does not depend on the rank check: in a
   pass over a headline metric that no failed dispatch ended, a PCT24H
   alert of that metric is submitted to the dispatch gate exactly when
   rolling_24h_delta is present and |delta.points| >= pctThreshold *
   max(1, last.points - delta.points), whether TOP, FLOP or neither was
   raised in the pass; and a present rolling delta always comes with a
   last-update delta, so the pass is never left before the check. *)
C39_PctIndependentOfRank ==
    [][/\ (result'.op = "do_alerts"
            /\ \E r \in Rolling24hAnswers(snapshots, result'.key) : r.delta.present)
           => result'.delta.present
       /\ PctPending => result'.op = "do_alerts_pct"
       /\ result'.op = "do_alerts_pct" =>
            /\ result'.key = result.key
            /\ (result'.raised = "PCT24H")
                   <=> PctMovement(snapshots, result'.key, result'.permille)
            /\ (result'.raised = "PCT24H")
                   <=> (result'.outcome \in {"sent", "suppressed", "raised"})
            /\ result'.outcome = "sent" =>
                  /\ alerts_log' = Append(alerts_log, alerts_log'[Len(alerts_log')])
                  /\ alerts_log'[Len(alerts_log')].category = "PCT24H:" \o result'.key[3]
                  /\ alerts_log'[Len(alerts_log')].api_timestamp
                        = GreatestTs(KeyRows(snapshots, result'.key))]_vars

\* a pass that dispatched TOP and then PCT24H for a loss-free gain of 0.6 %
C39_Witness ==
    /\ result.op = "do_alerts_pct"
    /\ result.rank_raised = "TOP"
    /\ result.raised = "PCT24H"
    /\ result.outcome = "sent"
    /\ result.permille = 6
    /\ result.delta.points = 6
    /\ Len(alerts_log) = 2

\* a pass that raised neither TOP nor FLOP and submitted PCT24H for a loss
C39_WitnessNoRank ==
    /\ result.op = "do_alerts_pct"
    /\ result.rank_raised = ""
    /\ result.raised = "PCT24H"
    /\ result.delta.points = -6

\* the rows of the 7 days that end at the latest military_lost snapshot
LostWeek ==
    LET R == KeyRows(snapshots, LostKey) IN
    {r \in R : r.api_timestamp >= GreatestTs(R) - 7 * 24 * 3600}

\* the sum of the absolute differences of consecutive points of a series
SumAbsSteps(series) ==
    SumSeq([i \in 1..(Len(series) - 1) |-> Abs(series[i + 1].points - series[i].points)])

(* C40: for military_lost a SPIKE alert is submitted to the dispatch gate
   if and only if a last-update delta exists, the mean absolute delta of
   the 7-day series ending at the latest snapshot is greater than 0, and
   |lastUpdateDelta.points| >= spikeFactor * that mean; with a zero
   baseline (fewer than two points in the week, or a constant series) no
   spike is raised. *)
C40_SpikeIffAboveBaseline ==
    [][result'.op = "do_alerts_lost" =>
         LET R == KeyRows(snapshots, LostKey)
             series == result'.series
             steps == Len(series) - 1
             raised == result'.raised = "SPIKE"
         IN  /\ result'.delta.present <=> Cardinality(R) >= 2
             /\ result'.delta.present =>
                   /\ {series[i] : i \in 1..Len(series)} = LostWeek
                   /\ Len(series) = Cardinality(LostWeek)
                   /\ \A i \in 1..steps : series[i].api_timestamp < series[i + 1].api_timestamp
                   /\ result'.last.api_timestamp = GreatestTs(R)
                   /\ \E prev \in FirstDesc(R \ {result'.last}) :
                         result'.delta.points = result'.last.points - prev.points
             /\ raised <=>
                   /\ result'.delta.present
                   /\ steps >= 1
                   /\ SumAbsSteps(series) > 0
                   /\ Abs(result'.delta.points) * 10 * steps
                         >= result'.factor10 * SumAbsSteps(series)
             /\ (Len(series) < 2 \/ \A i, j \in 1..Len(series) : series[i].points = series[j].points)
                   => ~raised
             /\ raised <=> (result'.outcome \in {"sent", "suppressed", "raised"})
             /\ result'.outcome = "sent" =>
                   /\ alerts_log' = Append(alerts_log, alerts_log'[Len(alerts_log')])
                   /\ alerts_log'[Len(alerts_log')].category = "SPIKE:military_lost"
                   /\ alerts_log'[Len(alerts_log')].api_timestamp = GreatestTs(R)]_vars

\* a last step of 25 points against a weekly mean of 10 and a factor of 2.5:
\* exactly at the threshold, dispatched
C40_Witness ==
    /\ result.op = "do_alerts_lost"
    /\ result.factor10 = 25
    /\ Len(result.series) = 4
    /\ SumAbsSteps(result.series) = 30
    /\ result.delta.points = 25
    /\ result.raised = "SPIKE"
    /\ result.outcome = "sent"

\* a last-update delta exists, but the row before the latest is older than
\* 7 days: one point in the week, no spike
C40_WitnessZeroBaseline ==
    /\ result.op = "do_alerts_lost"
    /\ result.delta.present
    /\ result.delta.points = 50
    /\ Len(result.series) = 1
    /\ result.raised = ""

====
